---- MODULE Spec2Model ----
(***************************************************************************)
(* Model of the EtherCAT cyclic bus engine (src/bin/ethercat/main.rs), the *)
(* devices it drives and the EL3356 load-cell calibration handshake        *)
(* (ethercat/src/devices/beckhoff/el3356.rs).                              *)
(*                                                                         *)
(* Every await point of the async code is a position of the program        *)
(* counter; an action is the code between two await points.  Collaborators *)
(* outside the repository (the frame transport, the SDO mailbox, the       *)
(* interval timer) answer nondeterministically within their contract.      *)
(***************************************************************************)
EXTENDS Integers, Sequences, FiniteSets, TLC

(***************************************************************************)
(* Bounds of the model.                                                    *)
(***************************************************************************)
\* longest bus that is enumerated
MaxDevices == 3
\* configured tick period (BusConfig.cycle_time), in model time units
CycleTime == 2
\* longest time one await (tx_rx, one process_data) can take, in time units
MaxElapsed == 2
\* latest the timer wakes the task after a deadline, in time units
MaxLate == 1
\* largest value the calibration status and response registers are read as
MaxReg == 1
\* poll iterations of one calibration call that are told apart
MaxPolls == 2

(***************************************************************************)
(* Results: Rust's Result<(), E>.                                          *)
(***************************************************************************)
Ok == [ok |-> TRUE]
Err(cause) == [ok |-> FALSE, cause |-> cause]
IsOk(r) == r.ok
\* the errors the transport surfaces (ethercrab::error::Error); none of them
\* carries the bus index of the subdevice
Causes == {"Timeout", "Mailbox"}
NoResult == [ok |-> FALSE, cause |-> "NotCalled"]

(***************************************************************************)
(* The bus: the terminals found by enumeration, in bus order.  A terminal  *)
(* is its identity and the length of the input slice the group gives it.   *)
(***************************************************************************)
\* El1008 = El1xxx<El1008Info, 8, 1>: ARR_LEN
El1008_ARR_LEN == 1
\* InputPdo of the EL3356: #[wire(bytes = 6)]
El3356_INPUT_BYTES == 6

SubDevices ==
    { [ident |-> "Unknown", input_len |-> 0],
      [ident |-> "I550", input_len |-> 6],
      [ident |-> "El1008", input_len |-> El1008_ARR_LEN],
      [ident |-> "El1008", input_len |-> El1008_ARR_LEN + 1],
      [ident |-> "El3356", input_len |-> El3356_INPUT_BYTES],
      [ident |-> "El3356", input_len |-> El3356_INPUT_BYTES - 2] }

Buses == UNION { [1..n -> SubDevices] : n \in 0..MaxDevices }

(***************************************************************************)
(* Devices.                                                                *)
(***************************************************************************)
\* make_device: the device for an identity; an identity that is not
\* registered gets the UnimplementedDevice
make_device(ident, index) ==
    CASE ident = "El1008" -> [kind |-> "El1xxx", index |-> index, error |-> FALSE]
      [] ident = "El3356" -> [kind |-> "El3356", index |-> index, error |-> FALSE]
      [] ident = "I550" -> [kind |-> "I550", index |-> index, error |-> FALSE]
      [] OTHER -> [kind |-> "Unimplemented", index |-> index, error |-> FALSE]

\* Device::setup: what a setup can return.  El1xxx and the unimplemented
\* device return Ok(()) at once; the EL3356 and the i550 write SDOs, each
\* followed by `?`, so the setup fails with the error of its first failed write
SetupResults(kind) ==
    IF kind \in {"El3356", "I550"} THEN {Ok} \cup {Err(c) : c \in Causes} ELSE {Ok}

VARIABLES
    bus,           \* the terminals on the wire, in bus order
    pc,            \* position of the main task
    devices,       \* Bus.devices
    group,         \* Bus.group: Option<SubDeviceGroup<.., Op>>
    preop,         \* init()'s local `group` (the enumerated, pre-op group)
    index,         \* init()'s local `index`
    res,           \* main()'s `res`: what the last init() returned
    warned,        \* the "Failed to setup device" warnings of this init()
    device_index,  \* run()'s dispatch loop position
    lag,           \* now - deadline of run()'s tick_interval
    phase,         \* (now - creation of tick_interval) modulo the period
    iter,          \* whether run() has completed a tick (0 or 1)
    missed,        \* tick boundaries the tick() that just returned passed over
    init_trace,    \* what the current (or last) init() has done, in order
    tick_trace,    \* what the current tick of run() has done, in order
    run_failed,    \* run() returned an error and no init() has succeeded since
    slept,         \* milliseconds main() slept since init() or run() last returned
    \* El3356::zero_calibrate and El3356::calibrate, called on one EL3356
    cal_fn,        \* the function called last: "none", "zero_calibrate", "calibrate"
    cal_pc,        \* its position: "idle" (returned), "write", "status", "response", "sleep"
    cal_step,      \* the step of its program it is at
    cal_load,      \* its argument nominal_load / calibration_load
    cal_filter,    \* its argument filter (calibrate only)
    status,        \* `status` of the poll iteration (Unread before it is read)
    response,      \* `response` of the poll iteration (Unread before it is read)
    polls,         \* poll iterations begun in this call, counted up to MaxPolls
    sdo_log,       \* the SDO writes issued in this call, in order, with their outcome
    cal_res,       \* what the call returned (Pending while it runs)
    sdo_err,       \* the error of the SDO access of this call that failed, or NoError
    zero_done,     \* a zero_calibrate has returned Ok(()) on this device
    span_failed,   \* a calibrate has returned an error on this device and no
                   \* zero_calibrate has returned Ok(()) since
    \* the process data codec: one call of a derived pack or unpack function
    codec_op,      \* the function called last, "none" before the first call
    codec_ty,      \* the type it was called on
    codec_value,   \* the value packed (the declaration, for "derive")
    codec_src,     \* the slice passed in, as it was before the call
    codec_buf,     \* the slice after the call
    codec_res,     \* what the call returned
    \* one El1008 and the calls of its process_data
    dio_device,    \* the device: its `error` flag
    dio_input,     \* inputs_raw() of the last call
    dio_res,       \* what the last call returned
    dio_logged,    \* the last call logged "Input data length mismatch"
    dio_published, \* the values the last call sent on its signals, in order
    dio_run,       \* how many calls in a row, up to the last, saw a wrong length
    \* one device of a bus and one call of its setup or process_data
    dev_op,        \* the function called last, "none" before the first call
    dev_bus,       \* the kinds of the devices of the bus, in bus order
    dev_slot,      \* the bus index of the device that was called
    dev_conf,      \* the persisted configuration of the device (setup reads it)
    dev_cnt0,      \* the device's `cnt` before the call
    dev_cnt,       \* the device's `cnt` after the call
    dev_pdi0,      \* the exchange buffer before the call: per subdevice its slices
    dev_pdi,       \* the exchange buffer after the call
    dev_sdo,       \* the SDO writes the call issued, in order, with their outcome
    dev_res,       \* what the call returned
    \* the bus configuration (ConfMan<BusConfig>) and the runs of Bus::run
    conf_stored,   \* the BusConfig the configuration manager holds now
    conf_new,      \* the BusConfig it held when Bus::new ran
    conf_iface,    \* the interface the TX/RX task was spawned on
    conf_pc,       \* "main" (between runs) or "run" (inside Bus::run)
    conf_period,   \* the period of run()'s tick_interval, 0 before the first run
    conf_runs,     \* calls of run() so far, counted up to MaxRestarts + 1
    \* two terminals of one type on a bus and the keys their devices are given
    key_type,      \* the type of the two terminals, "none" before any is made
    key_a,         \* the first terminal: its bus index and its alias address
    key_b,         \* the second terminal
    key_of_a,      \* the key of the configuration of the first device
    key_of_b,      \* the key of the configuration of the second device
    \* one machine of the declared `Calibrate` state machine
    sm_state,      \* its state
    sm_log,        \* the events it was given, in order, each with the result
    \* the statistics of Bus::run
    stat_pc,       \* "main" (outside run), "tx_rx", "process_data", "tick", "panicked"
    stat_cnt,      \* run()'s `cnt`: an i32
    stat_tx,       \* run()'s `tx_rx_duration`, in time units
    stat_pd,       \* run()'s `process_data_duration`, in time units
    stat_since,    \* ticks completed since the last report, or since run() began
    stat_g_tx,     \* time the tx_rx awaits of those ticks took
    stat_g_pd,     \* time the dispatches of those ticks took
    stat_slow,     \* awaits of this run that took longer than a time unit
    stat_report,   \* the last report of this run, NoReport before the first
    \* the operation mode machine (bin/operations.rs) and its input handlers
    ops_state,     \* the state of the `Operations` state machine
    ops_from,      \* its state when the last handler was called
    ops_call,      \* the handler called last and the value it was given
    ops_event,     \* the event that call gave the machine, "none" if it gave none
    ops_res,       \* what process_event returned to it, NoResult if not called
    ops_actions,   \* the callbacks of the context that call executed, in order
    ops_trail      \* the states the machine has been in, in the order of first entry

engine_vars == <<bus, pc, devices, group, preop, index, res, warned, device_index,
                 lag, phase, iter, missed, init_trace, tick_trace, run_failed, slept>>
cal_vars == <<cal_fn, cal_pc, cal_step, cal_load, cal_filter, status, response,
              polls, sdo_log, cal_res, sdo_err, zero_done, span_failed>>
codec_vars == <<codec_op, codec_ty, codec_value, codec_src, codec_buf, codec_res>>
dio_vars == <<dio_device, dio_input, dio_res, dio_logged, dio_published, dio_run>>
dev_vars == <<dev_op, dev_bus, dev_slot, dev_conf, dev_cnt0, dev_cnt, dev_pdi0, dev_pdi,
              dev_sdo, dev_res>>
\* the variables of the parts of the program that are modelled on their own
conf_vars == <<conf_stored, conf_new, conf_iface, conf_pc, conf_period, conf_runs>>
key_vars == <<key_type, key_a, key_b, key_of_a, key_of_b>>
sm_vars == <<sm_state, sm_log>>
stat_vars == <<stat_pc, stat_cnt, stat_tx, stat_pd, stat_since, stat_g_tx, stat_g_pd,
               stat_slow, stat_report>>
ops_vars == <<ops_state, ops_from, ops_call, ops_event, ops_res, ops_actions, ops_trail>>
ext_vars == <<dev_vars, conf_vars, key_vars, sm_vars, stat_vars, ops_vars>>
vars == <<engine_vars, cal_vars, codec_vars, dio_vars, ext_vars>>

None == [some |-> FALSE, subdevices |-> <<>>]
Some(g) == [some |-> TRUE, subdevices |-> g]

(***************************************************************************)
(* Bus::new and the start of main().                                       *)
(***************************************************************************)
EngineInit ==
    /\ bus \in Buses
    /\ pc = "main"
    /\ devices = <<>>
    /\ group = None
    /\ preop = <<>>
    /\ index = 0
    /\ res = NoResult
    /\ warned = <<>>
    /\ device_index = 0
    /\ lag = 0
    /\ phase = 0
    /\ iter = 0
    /\ missed = 0
    /\ init_trace = <<>>
    /\ tick_trace = <<>>
    /\ run_failed = FALSE
    /\ slept = 0

\* no calibration function has been called
Unread == 0 - 1
Pending == [ok |-> FALSE, cause |-> "pending"]
NoError == "none"

CalInit ==
    /\ cal_fn = "none"
    /\ cal_pc = "idle"
    /\ cal_step = 0
    /\ cal_load = 0
    /\ cal_filter = 0
    /\ status = Unread
    /\ response = Unread
    /\ polls = 0
    /\ sdo_log = <<>>
    /\ cal_res = Pending
    /\ sdo_err = NoError
    /\ zero_done = FALSE
    /\ span_failed = FALSE

\* no codec function has been called
CodecInit ==
    /\ codec_op = "none"
    /\ codec_ty = "none"
    /\ codec_value = 0
    /\ codec_src = <<>>
    /\ codec_buf = <<>>
    /\ codec_res = NoResult

\* El1xxx::new for an El1008 at bus index 0; process_data not called yet
DioInit ==
    /\ dio_device = make_device("El1008", 0)
    /\ dio_input = <<>>
    /\ dio_res = NoResult
    /\ dio_logged = FALSE
    /\ dio_published = <<>>
    /\ dio_run = 0

\* no device has been called
DevInit ==
    /\ dev_op = "none"
    /\ dev_bus = <<>>
    /\ dev_slot = 0
    /\ dev_conf = <<>>
    /\ dev_cnt0 = 0
    /\ dev_cnt = 0
    /\ dev_pdi0 = <<>>
    /\ dev_pdi = <<>>
    /\ dev_sdo = <<>>
    /\ dev_res = NoResult

\* the interfaces and tick periods a stored configuration can name; the
\* defaults of Bus::new are "eth0" and 1 ms
Interfaces == {"eth0", "eth1"}
CycleTimes == {1, 2, 5}
BusConfigs == [interface : Interfaces, cycle_time : CycleTimes]

\* Bus::new: ConfMan::new(conn, "bus").with_default(..) holds the stored
\* configuration; the TX/RX task is spawned on config.read().interface
ConfInit ==
    /\ conf_stored \in BusConfigs
    /\ conf_new = conf_stored
    /\ conf_iface = conf_stored.interface
    /\ conf_pc = "main"
    /\ conf_period = 0
    /\ conf_runs = 0

\* no device has been made
KeyInit ==
    /\ key_type = "none"
    /\ key_a = <<>>
    /\ key_b = <<>>
    /\ key_of_a = <<>>
    /\ key_of_b = <<>>

\* a new machine is in the state marked `*`
SmInit ==
    /\ sm_state = "Idle"
    /\ sm_log = <<>>

NoReport == [at |-> 0, ticks |-> 0, tx_total |-> 0, pd_total |-> 0, tx |-> 0, pd |-> 0,
             g_tx |-> 0, g_pd |-> 0]

\* run() has not been called
StatInit ==
    /\ stat_pc = "main"
    /\ stat_cnt = 0
    /\ stat_tx = 0
    /\ stat_pd = 0
    /\ stat_since = 0
    /\ stat_g_tx = 0
    /\ stat_g_pd = 0
    /\ stat_slow = 0
    /\ stat_report = NoReport

\* OperationsStateMachine::new(context): the machine is in the state marked
\* `*`, and no handler has been called
NoCall == [handler |-> "none", val |-> FALSE]
OpsInit ==
    /\ ops_state = "Init"
    /\ ops_from = "Init"
    /\ ops_call = NoCall
    /\ ops_event = "none"
    /\ ops_res = NoResult
    /\ ops_actions = <<>>
    /\ ops_trail = <<"Init">>

\* Bus::new: the defaults given to with_default
BusConfig_default == [interface |-> "eth0", cycle_time |-> 1]

\* the parts that are modelled on their own, at rest
ExtInit == DevInit /\ ConfInit /\ conf_stored = BusConfig_default /\ KeyInit
           /\ SmInit /\ StatInit /\ OpsInit

Init == EngineInit /\ CalInit /\ CodecInit /\ DioInit /\ ExtInit

init_vars == <<devices, group, preop, index, res, warned, init_trace>>
run_vars == <<device_index, lag, phase, iter, missed, tick_trace>>

(***************************************************************************)
(* Bus::init                                                               *)
(***************************************************************************)
\* faulty variant: init() does not clear the device list
InitCallKeepsDevices ==
    /\ pc = "main"
    /\ pc' = "init_single_group"
    /\ preop' = <<>>
    /\ index' = 0
    /\ warned' = <<>>
    /\ init_trace' = <<>>
    /\ UNCHANGED <<cal_vars, codec_vars, dio_vars, ext_vars, bus, devices, group, res, run_vars, run_failed, slept>>

\* main calls bus.init(): self.devices.clear(), then init_single_group is awaited
InitCall ==
    /\ pc = "main"
    /\ pc' = "init_single_group"
    /\ devices' = <<>>
    /\ preop' = <<>>
    /\ index' = 0
    /\ warned' = <<>>
    /\ init_trace' = <<>>
    /\ UNCHANGED <<cal_vars, codec_vars, dio_vars, ext_vars, bus, group, res, run_vars, run_failed, slept>>

\* init_single_group(..).await? : the enumerated group, or init() returns the error
InitSingleGroupReturn ==
    /\ pc = "init_single_group"
    /\ \E r \in {Ok} \cup {Err(c) : c \in Causes} :
         IF IsOk(r)
         THEN /\ preop' = bus
              /\ index' = 0
              /\ pc' = "setup_loop"
              /\ res' = res
              /\ init_trace' = Append(init_trace, <<"enumerated", Len(bus)>>)
         ELSE /\ res' = r
              /\ pc' = "init_ret"
              /\ init_trace' = Append(init_trace, <<"enumerate_err", 0>>)
              /\ UNCHANGED <<preop, index>>
    /\ UNCHANGED <<cal_vars, codec_vars, dio_vars, ext_vars, bus, devices, group, warned, run_vars, run_failed, slept>>

\* faulty variant: the loop stops one subdevice early
SetupLoopDoneEarly == index + 1 >= Len(preop)

\* `for mut subdevice in group.iter(..)` has visited every subdevice
SetupLoopDone == index >= Len(preop)

\* the head of `for mut subdevice in group.iter(..)` with a subdevice left:
\* make_device, then device.setup(&mut subdevice) is awaited
SetupCall ==
    /\ pc = "setup_loop"
    /\ ~SetupLoopDone
    /\ pc' = "setup"
    /\ init_trace' = Append(init_trace, <<"setup_call", index>>)
    /\ UNCHANGED <<cal_vars, codec_vars, dio_vars, ext_vars, bus, devices, group, preop, index, res, warned, run_vars, run_failed, slept>>

\* faulty variant: the error is logged and the loop goes on (no `?`)
SetupContinuesAlways(r) == TRUE

\* where init() goes after setup() returned r: `?` returns the error
SetupContinues(r) == IsOk(r)

\* device.setup(..).await.map_err(warn!).. ?; self.devices.push(device); index += 1
SetupReturn ==
    /\ pc = "setup"
    /\ LET device == make_device(preop[index + 1].ident, index)
       IN \E r \in SetupResults(device.kind) :
            /\ warned' = IF IsOk(r) THEN warned
                         ELSE Append(warned, [index |-> index, cause |-> r.cause])
            /\ init_trace' = Append(init_trace,
                                    <<IF IsOk(r) THEN "setup_ok" ELSE "setup_err", index>>)
            /\ IF SetupContinues(r)
               THEN /\ devices' = Append(devices, device)
                    /\ index' = index + 1
                    /\ pc' = "setup_loop"
                    /\ res' = res
               ELSE /\ res' = r
                    /\ pc' = "init_ret"
                    /\ UNCHANGED <<devices, index>>
    /\ UNCHANGED <<cal_vars, codec_vars, dio_vars, ext_vars, bus, group, preop, run_vars, run_failed, slept>>

\* the loop is over: group.into_op(..) is awaited
IntoOpCall ==
    /\ pc = "setup_loop"
    /\ SetupLoopDone
    /\ pc' = "into_op"
    /\ init_trace' = Append(init_trace, <<"into_op_call", index>>)
    /\ UNCHANGED <<cal_vars, codec_vars, dio_vars, ext_vars, bus, devices, group, preop, index, res, warned, run_vars, run_failed, slept>>

\* group.into_op(..).await? ; self.group = Some(group); Ok(())
IntoOpReturn ==
    /\ pc = "into_op"
    /\ \E r \in {Ok} \cup {Err(c) : c \in Causes} :
         /\ res' = r
         /\ pc' = "init_ret"
         /\ group' = IF IsOk(r) THEN Some(preop) ELSE group
         /\ run_failed' = IF IsOk(r) THEN FALSE ELSE run_failed
         /\ init_trace' = Append(init_trace,
                                 <<IF IsOk(r) THEN "into_op_ok" ELSE "into_op_err", index>>)
    /\ UNCHANGED <<cal_vars, codec_vars, dio_vars, ext_vars, bus, devices, preop, index, warned, run_vars, slept>>

(***************************************************************************)
(* main(): the supervisor loop around init() and run().                    *)
(***************************************************************************)
\* faulty variants: main leaves the retry loop whatever init() returned, or
\* leaves it on the error
InitLoopBreaksAlways(r) == TRUE
InitLoopBreaksOnErr(r) == ~IsOk(r)

\* `if let Err(e) = res { warn } else { break }`: whether main leaves the
\* retry loop for run(); the locals of init() are gone
InitLoopBreaks(r) == IsOk(r)

MainAfterInit ==
    /\ pc = "init_ret"
    /\ pc' = IF InitLoopBreaks(res) THEN "run" ELSE "sleep"
    /\ slept' = 0
    /\ preop' = <<>>
    /\ index' = 0
    /\ UNCHANGED <<cal_vars, codec_vars, dio_vars, ext_vars, bus, devices, group, res, warned, init_trace, run_vars, run_failed>>

\* Duration::from_millis(1000)
BACKOFF_MS == 1000

\* tokio::time::sleep(Duration::from_millis(1000)).await, then the loop again
SleepReturn ==
    /\ pc = "sleep"
    /\ pc' = "main"
    /\ slept' = slept + BACKOFF_MS
    /\ UNCHANGED <<cal_vars, codec_vars, dio_vars, ext_vars, bus, init_vars, run_vars, run_failed>>

(***************************************************************************)
(* Device::process_data of each device.                                    *)
(***************************************************************************)
Panic == [ok |-> FALSE, cause |-> "panic"]
LengthMismatch == Err("Input data length mismatch")

\* faulty variant: a call that succeeds leaves the error flag as it found it
El1xxx_process_data_sticky(device, input_len) ==
    IF input_len /= El1008_ARR_LEN /\ ~device.error
    THEN [device |-> [device EXCEPT !.error = TRUE], result |-> LengthMismatch,
          logged |-> TRUE]
    ELSE [device |-> device, result |-> Ok, logged |-> FALSE]

\* El1xxx::process_data: the length check with the one-shot error flag;
\* `logged` says whether the call wrote the error!() line
El1xxx_process_data(device, input_len) ==
    IF input_len /= El1008_ARR_LEN /\ ~device.error
    THEN [device |-> [device EXCEPT !.error = TRUE], result |-> LengthMismatch,
          logged |-> TRUE]
    ELSE [device |-> [device EXCEPT !.error = FALSE], result |-> Ok,
          logged |-> FALSE]

\* El3356::process_data: on the calls where cnt % 1000 == 0 the input is
\* unpacked with expect(), which panics on a slice shorter than the layout.
\* The counter is not kept here: `due` says whether this call is such a call
El3356_process_data(device, input_len, due) ==
    IF due /\ input_len < El3356_INPUT_BYTES
    THEN [device |-> device, result |-> Panic]
    ELSE [device |-> device, result |-> Ok]

\* I550::process_data returns Ok(()) on every path; so does the
\* UnimplementedDevice
process_data(device, subdevice, due) ==
    CASE device.kind = "El1xxx" -> El1xxx_process_data(device, subdevice.input_len)
      [] device.kind = "El3356" -> El3356_process_data(device, subdevice.input_len, due)
      [] OTHER -> [device |-> device, result |-> Ok]

(***************************************************************************)
(* The interval timer of run(): tokio::time::interval(cycle_time) with a   *)
(* missed tick behaviour.  A tick that completes `late` time units after   *)
(* its deadline sets the next deadline; the operators give now - deadline  *)
(* for the new deadline.                                                   *)
(***************************************************************************)
\* MissedTickBehavior::Skip: the next multiple of the period after now
\* (now + period - (now - deadline) % period)
Skip(late, period) == (late % period) - period

\* faulty variant: the behaviour is left at tokio's default, Burst: the next
\* deadline is one period after the last, however late the tick was
missed_tick_behavior_default(late, period) == late - period

\* tick_interval.set_missed_tick_behavior(MissedTickBehavior::Skip)
missed_tick_behavior(late, period) == Skip(late, period)

(***************************************************************************)
(* Bus::run                                                                *)
(***************************************************************************)
\* self.group.as_mut().expect(..); the interval is created: its first
\* deadline is now
RunCall ==
    /\ pc = "run"
    /\ IF group.some
       THEN /\ pc' = "tx_rx"
            /\ lag' = 0
            /\ phase' = 0
            /\ iter' = 0
            /\ missed' = 0
            /\ device_index' = 0
            /\ tick_trace' = <<>>
       ELSE /\ pc' = "panicked"
            /\ UNCHANGED run_vars
    /\ UNCHANGED <<cal_vars, codec_vars, dio_vars, ext_vars, bus, init_vars, run_failed, slept>>

\* group.tx_rx(..).await? took e time units
TxRxReturn ==
    /\ pc = "tx_rx"
    /\ \E e \in 0..MaxElapsed, r \in {Ok} \cup {Err(c) : c \in Causes} :
         /\ lag' = lag + e
         /\ phase' = (phase + e) % CycleTime
         /\ missed' = 0
         /\ tick_trace' = Append(tick_trace,
                                 <<IF IsOk(r) THEN "tx_rx_ok" ELSE "tx_rx_err", 0>>)
         /\ IF IsOk(r)
            THEN /\ pc' = "dispatch"
                 /\ device_index' = 0
                 /\ run_failed' = run_failed
            ELSE /\ pc' = "run_ret"
                 /\ run_failed' = TRUE
                 /\ UNCHANGED device_index
    /\ UNCHANGED <<cal_vars, codec_vars, dio_vars, ext_vars, bus, init_vars, iter, slept>>

\* faulty variant: the dispatch stops one subdevice early
DispatchLoopDoneEarly == device_index + 1 >= Len(group.subdevices)

\* `for (device_index, subdevice) in group.iter(..).enumerate()` is over
DispatchLoopDone == device_index >= Len(group.subdevices)

\* the head of the dispatch loop with a subdevice left: a subdevice without a
\* device is passed over, otherwise its process_data is awaited
ProcessDataCall ==
    /\ pc = "dispatch"
    /\ ~DispatchLoopDone
    /\ IF device_index < Len(devices)
       THEN /\ pc' = "process_data"
            /\ tick_trace' = Append(tick_trace, <<"process_data_call", device_index>>)
            /\ UNCHANGED device_index
       ELSE /\ device_index' = device_index + 1
            /\ UNCHANGED <<pc, tick_trace>>
    /\ UNCHANGED <<cal_vars, codec_vars, dio_vars, ext_vars, bus, init_vars, lag, phase, iter, missed, run_failed, slept>>

\* faulty variant: a failed device is passed over and the dispatch goes on
DispatchContinuesAlways(r) == TRUE

\* where run() goes after process_data returned r: `?` returns the error
DispatchContinues(r) == IsOk(r)

\* device.process_data(&mut subdevice).await? took e time units
ProcessDataReturn ==
    /\ pc = "process_data"
    /\ \E e \in 0..MaxElapsed, due \in BOOLEAN :
         LET out == process_data(devices[device_index + 1],
                                 group.subdevices[device_index + 1], due)
         IN /\ lag' = lag + e
            /\ phase' = (phase + e) % CycleTime
            /\ devices' = [devices EXCEPT ![device_index + 1] = out.device]
            /\ IF out.result = Panic
               THEN /\ pc' = "panicked"
                    /\ UNCHANGED <<device_index, tick_trace, run_failed>>
               ELSE /\ tick_trace' = Append(tick_trace,
                          <<IF IsOk(out.result) THEN "process_data_ok"
                            ELSE "process_data_err", device_index>>)
                    /\ IF DispatchContinues(out.result)
                       THEN /\ pc' = "dispatch"
                            /\ device_index' = device_index + 1
                            /\ run_failed' = run_failed
                       ELSE /\ pc' = "run_ret"
                            /\ run_failed' = TRUE
                            /\ UNCHANGED device_index
    /\ UNCHANGED <<cal_vars, codec_vars, dio_vars, ext_vars, bus, group, preop, index, res, warned, init_trace, iter, missed, slept>>

\* the dispatch loop is over: tick_interval.tick() is awaited
TickCall ==
    /\ pc = "dispatch"
    /\ DispatchLoopDone
    /\ pc' = "tick"
    /\ tick_trace' = Append(tick_trace, <<"tick_call", 0>>)
    /\ UNCHANGED <<cal_vars, codec_vars, dio_vars, ext_vars, bus, init_vars, device_index, lag, phase, iter, missed, run_failed, slept>>

\* tick_interval.tick().await: the task sleeps to the deadline if it is still
\* ahead, is woken w time units after it, and the timer sets its next
\* deadline; then the next iteration begins.  The tick count `cnt` and the
\* duration accumulators that follow tick() only feed the log and are not
\* kept in this state.
TickReturn ==
    /\ pc = "tick"
    /\ \E w \in 0..MaxLate :
         LET waited == IF lag < 0 THEN 0 - lag ELSE 0
             late == lag + waited + w
         IN /\ lag' = missed_tick_behavior(late, CycleTime)
            /\ missed' = late \div CycleTime
            /\ phase' = (phase + waited + w) % CycleTime
    /\ iter' = 1
    /\ pc' = "tx_rx"
    /\ tick_trace' = <<>>
    /\ UNCHANGED <<cal_vars, codec_vars, dio_vars, ext_vars, bus, init_vars, device_index, run_failed, slept>>

\* faulty variant: main calls run() again without init()
MainAfterRunRetriesRun ==
    /\ pc = "run_ret"
    /\ pc' = "run"
    /\ slept' = 0
    /\ device_index' = 0
    /\ lag' = 0
    /\ phase' = 0
    /\ iter' = 0
    /\ missed' = 0
    /\ tick_trace' = <<>>
    /\ UNCHANGED <<cal_vars, codec_vars, dio_vars, ext_vars, bus, init_vars, run_failed>>

\* faulty variant: main backs off after a failed run() as after a failed init()
MainAfterRunBacksOff ==
    /\ pc = "run_ret"
    /\ pc' = "sleep"
    /\ slept' = 0
    /\ device_index' = 0
    /\ lag' = 0
    /\ phase' = 0
    /\ iter' = 0
    /\ missed' = 0
    /\ tick_trace' = <<>>
    /\ UNCHANGED <<cal_vars, codec_vars, dio_vars, ext_vars, bus, init_vars, run_failed>>

\* back in main(): `let _ = bus.run().await.map_err(error!)`, then the outer
\* loop starts over with init(); the locals of run() are gone
MainAfterRun ==
    /\ pc = "run_ret"
    /\ pc' = "main"
    /\ slept' = 0
    /\ device_index' = 0
    /\ lag' = 0
    /\ phase' = 0
    /\ iter' = 0
    /\ missed' = 0
    /\ tick_trace' = <<>>
    /\ UNCHANGED <<cal_vars, codec_vars, dio_vars, ext_vars, bus, init_vars, run_failed>>

(***************************************************************************)
(* The EL3356 calibration: El3356::zero_calibrate and El3356::calibrate.   *)
(* Both are public associated functions taking the subdevice; they are a   *)
(* straight line of SDO writes, each followed by `?`, around a poll loop.  *)
(* Register addresses and values are the source's, in decimal.             *)
(***************************************************************************)
\* Filter::IIR8
IIR8 == 9
\* the loads (kg) and filters a caller passes
Loads == {1, 5}
Filters == {0, 2, IIR8}
RegValues == 0..MaxReg

Write(idx, sub, value) == [op |-> "write", index |-> idx, sub |-> sub, value |-> value]
Poll == [op |-> "poll", index |-> 64256, sub |-> 2, value |-> 0]

\* the calibration command register 0xFB00:01 and its commands
ZeroBalanceCommand == Write(64256, 1, 257)     \* 0xFB00:01 = 0x0101
SpanCommand == Write(64256, 1, 258)            \* 0xFB00:01 = 0x0102
ResetCommand == Write(64256, 1, 0)             \* 0xFB00:01 = 0x0000

\* faulty variant: the zero balance command is given before the nominal load
\* is written
zero_calibrate_command_early(nominal_load) ==
    << Write(4113, 1, 1684107116),
       Write(32768, 39, 1),
       Write(32768, 33, 1),
       Write(32768, 34, 0),
       Write(32768, 17, IIR8),
       ZeroBalanceCommand,
       Write(32768, 36, nominal_load),
       Poll >>

\* faulty variant: the command register is reset before the poll
calibrate_reset_early(calibration_load, filter) ==
    << Write(32768, 40, calibration_load),
       SpanCommand,
       ResetCommand,
       Poll,
       Write(32768, 17, filter) >>

\* zero_calibrate(device, nominal_load)
zero_calibrate(nominal_load) ==
    << Write(4113, 1, 1684107116),             \* 0x1011:01 = 0x64616F6C
       Write(32768, 39, 1),                    \* 0x8000:27 = 1.0
       Write(32768, 33, 1),                    \* 0x8000:21 = 1.0
       Write(32768, 34, 0),                    \* 0x8000:22 = 0.0
       Write(32768, 17, IIR8),                 \* Filter: 0x8000:11 = IIR8
       Write(32768, 36, nominal_load),         \* 0x8000:24 = nominal_load
       ZeroBalanceCommand,
       Poll >>

\* calibrate(device, calibration_load, filter)
calibrate(calibration_load, filter) ==
    << Write(32768, 40, calibration_load),     \* 0x8000:28 = calibration_load
       SpanCommand,
       Poll,
       ResetCommand,
       Write(32768, 17, filter) >>             \* Filter: 0x8000:11 = filter

Program ==
    CASE cal_fn = "zero_calibrate" -> zero_calibrate(cal_load)
      [] cal_fn = "calibrate" -> calibrate(cal_load, cal_filter)
      [] OTHER -> <<>>

\* faulty variant: one register at zero is taken for acceptance
PollDoneEither(s, r) == s = 0 \/ r = 0

\* `if status == 0 && response == 0 { break; }`
PollDone(s, r) == s = 0 /\ r = 0

PcOf(step) == IF step.op = "write" THEN "write" ELSE "status"

\* a caller calls El3356::zero_calibrate; nothing in the function or around
\* it restricts when
ZeroCalibrateCall ==
    /\ cal_pc = "idle"
    /\ \E load \in Loads :
         /\ cal_fn' = "zero_calibrate"
         /\ cal_load' = load
         /\ cal_filter' = 0
    /\ cal_step' = 1
    /\ cal_pc' = "write"
    /\ status' = Unread
    /\ response' = Unread
    /\ polls' = 0
    /\ sdo_log' = <<>>
    /\ cal_res' = Pending
    /\ sdo_err' = NoError
    /\ UNCHANGED <<engine_vars, codec_vars, dio_vars, ext_vars, zero_done, span_failed>>

\* a caller calls El3356::calibrate; nothing in the function or around it
\* restricts when
CalibrateCall ==
    /\ cal_pc = "idle"
    /\ \E load \in Loads, filter \in Filters :
         /\ cal_fn' = "calibrate"
         /\ cal_load' = load
         /\ cal_filter' = filter
    /\ cal_step' = 1
    /\ cal_pc' = "write"
    /\ status' = Unread
    /\ response' = Unread
    /\ polls' = 0
    /\ sdo_log' = <<>>
    /\ cal_res' = Pending
    /\ sdo_err' = NoError
    /\ UNCHANGED <<engine_vars, codec_vars, dio_vars, ext_vars, zero_done, span_failed>>

\* the step at cal_step is done: the next step, or Ok(()) after the last
CalStepDone ==
    IF cal_step < Len(Program)
    THEN /\ cal_step' = cal_step + 1
         /\ cal_pc' = PcOf(Program[cal_step + 1])
         /\ UNCHANGED <<cal_res, zero_done, span_failed>>
    ELSE /\ cal_pc' = "idle"
         /\ cal_res' = Ok
         /\ zero_done' = (zero_done \/ cal_fn = "zero_calibrate")
         /\ span_failed' = (span_failed /\ cal_fn /= "zero_calibrate")
         /\ UNCHANGED cal_step

\* faulty variant: the error of the access is dropped and the function goes on
CalIgnoresErr(c) == CalStepDone

\* `?` on a failed SDO access: the function returns the error
CalReturnsErr(c) ==
    /\ cal_pc' = "idle"
    /\ cal_res' = Err(c)
    /\ span_failed' = (span_failed \/ cal_fn = "calibrate")
    /\ UNCHANGED <<cal_step, zero_done>>

\* device.sdo_write(..).await? of the step at cal_step
SdoWriteReturn ==
    /\ cal_pc = "write"
    /\ \E r \in {Ok} \cup {Err(c) : c \in Causes} :
         /\ sdo_log' = Append(sdo_log, [step |-> Program[cal_step], ok |-> IsOk(r)])
         /\ sdo_err' = IF IsOk(r) THEN sdo_err ELSE r.cause
         /\ IF IsOk(r) THEN CalStepDone ELSE CalReturnsErr(r.cause)
    /\ UNCHANGED <<engine_vars, codec_vars, dio_vars, ext_vars, cal_fn, cal_load, cal_filter, status, response, polls>>

\* let status: u8 = device.sdo_read(0xFB00, 0x02).await?
PollReadStatus ==
    /\ cal_pc = "status"
    /\ polls' = IF polls < MaxPolls THEN polls + 1 ELSE polls
    /\ response' = Unread
    /\ \/ \E v \in RegValues :
            /\ status' = v
            /\ cal_pc' = "response"
            /\ UNCHANGED <<cal_step, cal_res, sdo_err, zero_done, span_failed>>
       \/ \E c \in Causes :
            /\ status' = Unread
            /\ sdo_err' = c
            /\ CalReturnsErr(c)
    /\ UNCHANGED <<engine_vars, codec_vars, dio_vars, ext_vars, cal_fn, cal_load, cal_filter, sdo_log>>

\* let response: u32 = device.sdo_read(0xFB00, 0x03).await?; then the test
\* of the two values: break, or sleep 1 ms
PollReadResponse ==
    /\ cal_pc = "response"
    /\ \/ \E v \in RegValues :
            /\ response' = v
            /\ sdo_err' = sdo_err
            /\ IF PollDone(status, v)
               THEN CalStepDone
               ELSE /\ cal_pc' = "sleep"
                    /\ UNCHANGED <<cal_step, cal_res, zero_done, span_failed>>
       \/ \E c \in Causes :
            /\ response' = Unread
            /\ sdo_err' = c
            /\ CalReturnsErr(c)
    /\ UNCHANGED <<engine_vars, codec_vars, dio_vars, ext_vars, cal_fn, cal_load, cal_filter, status, polls, sdo_log>>

\* tokio::time::sleep(1 ms).await, then the next iteration of the loop
PollSleepReturn ==
    /\ cal_pc = "sleep"
    /\ cal_pc' = "status"
    /\ status' = Unread
    /\ response' = Unread
    /\ UNCHANGED <<engine_vars, codec_vars, dio_vars, ext_vars, cal_fn, cal_step, cal_load, cal_filter, polls,
                   sdo_log, cal_res, sdo_err, zero_done, span_failed>>

Next ==
    \/ InitCall
    \/ InitSingleGroupReturn
    \/ SetupCall
    \/ SetupReturn
    \/ IntoOpCall
    \/ IntoOpReturn
    \/ MainAfterInit
    \/ SleepReturn
    \/ RunCall
    \/ TxRxReturn
    \/ ProcessDataCall
    \/ ProcessDataReturn
    \/ TickCall
    \/ TickReturn
    \/ MainAfterRun

Spec == Init /\ [][Next]_vars

\* every await of the main task returns: the transport and the mailbox answer
\* or time out, and the timers fire
FairSpec == Spec /\ WF_vars(Next)

\* the calibration functions on one EL3356, called in any order
InitCal == EngineInit /\ bus = <<>> /\ CalInit /\ CodecInit /\ DioInit /\ ExtInit

NextCal ==
    \/ ZeroCalibrateCall
    \/ CalibrateCall
    \/ SdoWriteReturn
    \/ PollReadStatus
    \/ PollReadResponse
    \/ PollSleepReturn

SpecCal == InitCal /\ [][NextCal]_vars

\* every await of a calibration call returns: the mailbox answers or times
\* out, and the 1 ms sleep ends
FairSpecCal == SpecCal /\ WF_vars(NextCal)

(***************************************************************************)
(* The process data codec: the layouts declared with #[wire(..)] and the   *)
(* pack and unpack functions that the ethercrab_wire derives generate from *)
(* a declaration.  A slice is a sequence of bytes; byte k of the Rust      *)
(* slice is element k + 1.  Bits are numbered from the least significant   *)
(* bit of byte 0.                                                          *)
(***************************************************************************)
\* how many bytes shorter or longer than the declared length a slice is tried
MaxSlack == 1
\* the byte values slices are filled with
ByteSamples == {0, 180, 255}

Field(name, ty, bits, pre_skip, post_skip) ==
    [name |-> name, ty |-> ty, bits |-> bits, pre_skip |-> pre_skip,
     post_skip |-> post_skip]

\* faulty variant: the skip that closes the control word is one bit short
ControlWordShort ==
    [bytes |-> 2,
     fields |-> << Field("start_calibration", "bool", 1, 0, 0),
                   Field("disable_calibration", "bool", 1, 0, 0),
                   Field("input_freeze", "bool", 1, 0, 0),
                   Field("sample_mode", "bool", 1, 0, 0),
                   Field("tare", "bool", 1, 0, 10) >>]

\* el3356.rs: struct StatusWord, #[wire(bytes = 2)]
StatusWord ==
    [bytes |-> 2,
     fields |-> << Field("over_range", "bool", 1, 1, 0),
                   Field("data_invalid", "bool", 1, 1, 0),
                   Field("collective_error", "bool", 1, 2, 0),
                   Field("calibration_in_progress", "bool", 1, 0, 0),
                   Field("steady_state", "bool", 1, 0, 0),
                   Field("sync_error", "bool", 1, 4, 0),
                   Field("tx_pdo", "bool", 1, 1, 0) >>]

\* el3356.rs: struct ControlWord, #[wire(bytes = 2)]
ControlWord ==
    [bytes |-> 2,
     fields |-> << Field("start_calibration", "bool", 1, 0, 0),
                   Field("disable_calibration", "bool", 1, 0, 0),
                   Field("input_freeze", "bool", 1, 0, 0),
                   Field("sample_mode", "bool", 1, 0, 0),
                   Field("tare", "bool", 1, 0, 11) >>]

\* el3356.rs: struct InputPdo, #[wire(bytes = 6)]
El3356_InputPdo ==
    [bytes |-> 6,
     fields |-> << Field("value", "StatusWord", 16, 0, 0),
                   Field("raw_value", "i32", 32, 0, 0) >>]

\* el3356.rs: struct OutputPdo, #[wire(bytes = 2)]
El3356_OutputPdo ==
    [bytes |-> 2,
     fields |-> << Field("control_word", "ControlWord", 16, 0, 0) >>]

\* i550.rs: struct OutputPdo, #[wire(bytes = 4)].  CiA402::ControlWord is
\* declared outside these sources; it is carried as the 16-bit word it fills
I550_OutputPdo ==
    [bytes |-> 4,
     fields |-> << Field("control_word", "u16", 16, 0, 0),
                   Field("speed", "i16", 16, 0, 0) >>]

\* i550.rs: struct InputPdo, #[wire(bytes = 6)].  CiA402::StatusWord is
\* carried as the 16-bit word it fills
I550_InputPdo ==
    [bytes |-> 6,
     fields |-> << Field("status_word", "u16", 16, 0, 0),
                   Field("actual_speed", "i16", 16, 0, 0),
                   Field("error", "i16", 16, 0, 0) >>]

StructTypes == {"StatusWord", "ControlWord", "El3356_InputPdo", "El3356_OutputPdo",
                "I550_OutputPdo", "I550_InputPdo"}

LayoutOf(ty) ==
    CASE ty = "StatusWord" -> StatusWord
      [] ty = "ControlWord" -> ControlWord
      [] ty = "El3356_InputPdo" -> El3356_InputPdo
      [] ty = "El3356_OutputPdo" -> El3356_OutputPdo
      [] ty = "I550_OutputPdo" -> I550_OutputPdo
      [] ty = "I550_InputPdo" -> I550_InputPdo

\* el3356.rs: enum Filter, #[repr(u16)]: the discriminants FIR50 = 0 to
\* PDOFilterFrequency = 11
FilterVariants == 0..11

\* the types a derive is asked for with EtherCrabWireWrite, with
\* EtherCrabWireRead, or with both (Filter: EtherCrabWireReadWrite)
WriteTypes == {"ControlWord", "El3356_OutputPdo", "I550_OutputPdo", "Filter"}
ReadTypes == {"StatusWord", "El3356_InputPdo", "I550_InputPdo", "Filter"}

\* the packed length of the primitive types and of the enum
PrimBytes(ty) ==
    CASE ty = "u16" -> 2
      [] ty = "i16" -> 2
      [] ty = "i32" -> 4
      [] ty = "Filter" -> 2

IsStruct(ty) == ty \in StructTypes
PackedLen(ty) == IF IsStruct(ty) THEN LayoutOf(ty).bytes ELSE PrimBytes(ty)

\* the derive's walk over the fields: where field i starts, in bits from the
\* start of the struct: the widths and skips of the fields before it and its
\* own pre_skip
RECURSIVE BitStart(_, _)
BitStart(fields, i) ==
    IF i = 1 THEN fields[1].pre_skip
    ELSE BitStart(fields, i - 1) + fields[i - 1].bits + fields[i - 1].post_skip
            + fields[i].pre_skip

TotalFieldWidth(fields) ==
    IF fields = <<>> THEN 0
    ELSE BitStart(fields, Len(fields)) + fields[Len(fields)].bits
            + fields[Len(fields)].post_skip

\* the derive on a declaration: a struct whose fields and skips do not fill
\* the declared #[wire(bytes = N)] is rejected when the type is built
\* ("Total field width is .., expected .. from struct definition")
derive(layout) ==
    IF TotalFieldWidth(layout.fields) /= 8 * layout.bytes
    THEN Err("Total field width")
    ELSE Ok

\* the bits of a struct that no field covers, over nested structs
RECURSIVE SkipBits(_)
SkipBits(ty) ==
    LET fields == LayoutOf(ty).fields
        covered == UNION { IF IsStruct(fields[i].ty)
                           THEN { BitStart(fields, i) + b :
                                    b \in (0..(fields[i].bits - 1)) \ SkipBits(fields[i].ty) }
                           ELSE { BitStart(fields, i) + b : b \in 0..(fields[i].bits - 1) } :
                           i \in 1..Len(fields) }
    IN (0..(8 * LayoutOf(ty).bytes - 1)) \ covered

\* u8 arithmetic
Bit(x, k) == (x \div (2 ^ k)) % 2
FromBits(b) == b[0] + 2 * b[1] + 4 * b[2] + 8 * b[3] + 16 * b[4] + 32 * b[5]
                  + 64 * b[6] + 128 * b[7]
Or8(x, y) == FromBits([k \in 0..7 |-> IF Bit(x, k) = 1 \/ Bit(y, k) = 1 THEN 1 ELSE 0])
And8(x, y) == FromBits([k \in 0..7 |-> IF Bit(x, k) = 1 /\ Bit(y, k) = 1 THEN 1 ELSE 0])
Shl8(x, n) == (x * (2 ^ n)) % 256
Shr8(x, n) == x \div (2 ^ n)
\* `self.field as u8` of a bool
AsU8(v) == IF v THEN 1 ELSE 0
\* the mask of a field of `bits` bits at bit `bit` of its byte
Mask(bits, bit) == ((2 ^ bits - 1) * (2 ^ bit)) % 256

\* to_le_bytes of an integer of n bytes: two's complement, low byte first
RECURSIVE to_le_bytes(_, _)
to_le_bytes(v, n) ==
    IF n = 0 THEN <<>>
    ELSE <<v % 256>> \o to_le_bytes((v - (v % 256)) \div 256, n - 1)

\* from_le_bytes of a signed and of an unsigned integer
RECURSIVE from_le_bytes_signed(_)
from_le_bytes_signed(b) ==
    IF Len(b) = 1 THEN (IF b[1] >= 128 THEN b[1] - 256 ELSE b[1])
    ELSE from_le_bytes_signed(Tail(b)) * 256 + b[1]

RECURSIVE from_le_bytes_unsigned(_)
from_le_bytes_unsigned(b) ==
    IF b = <<>> THEN 0 ELSE from_le_bytes_unsigned(Tail(b)) * 256 + b[1]

OkValue(v) == [ok |-> TRUE, value |-> v]

RECURSIVE pack_to_slice_unchecked(_, _, _, _)

\* faulty variant: a field narrower than a byte lands one bit too high
PackFieldShifted(fields, i, v, buf, base) ==
    LET f == fields[i]
        start == BitStart(fields, i)
        byte == base + start \div 8
        bit == (start + 1) % 8
    IN IF f.bits < 8
       THEN [buf EXCEPT ![byte + 1] =
                Or8(@, And8(Shl8(AsU8(v[f.name]), bit), Mask(f.bits, bit)))]
       ELSE pack_to_slice_unchecked(f.ty, v[f.name], buf, byte)

\* pack_to_slice_unchecked as derived: the fields in declaration order.  A
\* field narrower than a byte is merged into its byte,
\*     buf[byte] |= ((self.field as u8) << bit) & mask;
\* a wider field is byte aligned and packs itself into its bytes of the
\* slice; a primitive or an enum copies its little-endian bytes.  `base` is
\* the byte of buf at which the value starts.
PackField(fields, i, v, buf, base) ==
    LET f == fields[i]
        start == BitStart(fields, i)
        byte == base + start \div 8
        bit == start % 8
    IN IF f.bits < 8
       THEN [buf EXCEPT ![byte + 1] =
                Or8(@, And8(Shl8(AsU8(v[f.name]), bit), Mask(f.bits, bit)))]
       ELSE pack_to_slice_unchecked(f.ty, v[f.name], buf, byte)

RECURSIVE PackFields(_, _, _, _, _)
PackFields(fields, i, v, buf, base) ==
    IF i > Len(fields) THEN buf
    ELSE PackFields(fields, i + 1, v, PackField(fields, i, v, buf, base), base)

pack_to_slice_unchecked(ty, v, buf, base) ==
    IF IsStruct(ty)
    THEN PackFields(LayoutOf(ty).fields, 1, v, buf, base)
    ELSE LET b == to_le_bytes(v, PrimBytes(ty))
         IN [k \in 1..Len(buf) |->
                IF k > base /\ k <= base + Len(b) THEN b[k - base] ELSE buf[k]]

\* EtherCrabWireWrite::pack_to_slice: the length check, then the fields are
\* packed into the caller's slice as it is; the slice returned is its first
\* packed_len() bytes
pack_to_slice(ty, v, buf) ==
    IF Len(buf) < PackedLen(ty)
    THEN [res |-> Err("WriteBufferTooShort"), buf |-> buf]
    ELSE LET out == pack_to_slice_unchecked(ty, v, buf, 0)
         IN [res |-> OkValue(SubSeq(out, 1, PackedLen(ty))), buf |-> out]

\* EtherCrabWireWriteSized::pack: packs into a new buffer of zeroes
pack(ty, v) == pack_to_slice_unchecked(ty, v, [k \in 1..PackedLen(ty) |-> 0], 0)

\* `buf.get(0..N).ok_or(WireError::ReadBufferTooShort)?`
unpack_length_check(ty, buf) == Len(buf) >= PackedLen(ty)

\* unpack_from_slice as derived: the length check, then each field from its
\* bits: a field narrower than a byte is `(buf[byte] & mask) >> bit`, a bool
\* is that `> 0`; a wider field unpacks itself from its bytes.  The enum is
\* its u16 discriminant, InvalidValue if no variant has it.
RECURSIVE unpack_from_slice(_, _)
RECURSIVE UnpackFields(_, _, _)
UnpackFields(fields, i, buf) ==
    LET f == fields[i]
        start == BitStart(fields, i)
        byte == start \div 8
        bit == start % 8
        field == IF f.bits < 8
                 THEN OkValue(Shr8(And8(buf[byte + 1], Mask(f.bits, bit)), bit) > 0)
                 ELSE unpack_from_slice(f.ty, SubSeq(buf, byte + 1, byte + f.bits \div 8))
    IN IF ~IsOk(field) THEN field
       ELSE IF i = Len(fields) THEN OkValue(f.name :> field.value)
       ELSE LET rest == UnpackFields(fields, i + 1, buf)
            IN IF ~IsOk(rest) THEN rest
               ELSE OkValue((f.name :> field.value) @@ rest.value)

unpack_from_slice(ty, buf) ==
    IF ~unpack_length_check(ty, buf) THEN Err("ReadBufferTooShort")
    ELSE IF IsStruct(ty) THEN UnpackFields(LayoutOf(ty).fields, 1, buf)
    ELSE IF ty = "Filter"
         THEN LET d == from_le_bytes_unsigned(SubSeq(buf, 1, 2))
              IN IF d \in FilterVariants THEN OkValue(d) ELSE Err("InvalidValue")
    ELSE IF ty = "u16" THEN OkValue(from_le_bytes_unsigned(SubSeq(buf, 1, 2)))
    ELSE OkValue(from_le_bytes_signed(SubSeq(buf, 1, PrimBytes(ty))))

\* the values that are packed: every bool, and of the integers the ends of
\* the range and values around zero
I16Samples == {0 - 32768, 0 - 1, 0, 1, 1000, 32767}
I32Samples == {(0 - 2147483647) - 1, 0 - 1, 0, 1, 2147483647}
U16Samples == {0, 1, 4660, 65535}

RECURSIVE Values(_)
RECURSIVE Records(_, _)
Records(fields, i) ==
    IF i = Len(fields)
    THEN { fields[i].name :> x : x \in Values(fields[i].ty) }
    ELSE { (fields[i].name :> x) @@ r :
             x \in Values(fields[i].ty), r \in Records(fields, i + 1) }

Values(ty) ==
    CASE ty = "bool" -> BOOLEAN
      [] ty = "i16" -> I16Samples
      [] ty = "i32" -> I32Samples
      [] ty = "u16" -> U16Samples
      [] ty = "Filter" -> FilterVariants
      [] OTHER -> Records(LayoutOf(ty).fields, 1)

\* the slices a function is called with: some bytes shorter than n, n bytes,
\* some bytes longer
Slices(n) ==
    UNION { [1..m -> ByteSamples] : m \in (n - MaxSlack)..(n + MaxSlack) }

\* the declarations the derive is run on: the declared structs, and the same
\* with a skip or the frame some bits or bytes longer
Declarations ==
    LET declared == { LayoutOf(ty) : ty \in StructTypes }
    IN declared
       \cup { [l EXCEPT !.fields[1].post_skip = @ + d] :
                l \in declared, d \in 1..MaxSlack }
       \cup { [l EXCEPT !.bytes = @ + d] : l \in declared, d \in 1..MaxSlack }

\* the derive runs on a declaration when the crate is built
Derive ==
    /\ codec_op = "none"
    /\ \E decl \in Declarations :
         /\ codec_value' = decl
         /\ codec_res' = derive(decl)
    /\ codec_op' = "derive"
    /\ codec_ty' = "declaration"
    /\ codec_src' = <<>>
    /\ codec_buf' = <<>>
    /\ UNCHANGED <<engine_vars, cal_vars, dio_vars, ext_vars>>

\* value.pack_to_slice(&mut o), as in El3356::process_data and
\* I550::process_data, on a slice with any content
PackToSlice ==
    /\ codec_op = "none"
    /\ \E ty \in WriteTypes :
         /\ IsStruct(ty) => IsOk(derive(LayoutOf(ty)))
         /\ \E v \in Values(ty), dest \in Slices(PackedLen(ty)) :
              LET out == pack_to_slice(ty, v, dest)
              IN /\ codec_ty' = ty
                 /\ codec_value' = v
                 /\ codec_src' = dest
                 /\ codec_buf' = out.buf
                 /\ codec_res' = out.res
    /\ codec_op' = "pack_to_slice"
    /\ UNCHANGED <<engine_vars, cal_vars, dio_vars, ext_vars>>

\* T::unpack_from_slice(&i), as in El3356::process_data and
\* I550::process_data, on a slice of any length and content
UnpackFromSlice ==
    /\ codec_op = "none"
    /\ \E ty \in ReadTypes :
         /\ IsStruct(ty) => IsOk(derive(LayoutOf(ty)))
         /\ \E src \in Slices(PackedLen(ty)) :
              /\ codec_ty' = ty
              /\ codec_src' = src
              /\ codec_buf' = src
              /\ codec_res' = unpack_from_slice(ty, src)
    /\ codec_value' = 0
    /\ codec_op' = "unpack_from_slice"
    /\ UNCHANGED <<engine_vars, cal_vars, dio_vars, ext_vars>>

\* T::unpack_from_slice(&value.pack()): a value packed into a new buffer and
\* unpacked from it.  Filter derives both directions; for a struct the
\* direction its declaration does not ask for is the one the same declaration
\* gives
RoundTrip ==
    /\ codec_op = "none"
    /\ \E ty \in WriteTypes \cup ReadTypes :
         /\ IsStruct(ty) => IsOk(derive(LayoutOf(ty)))
         /\ \E v \in Values(ty) :
              /\ codec_ty' = ty
              /\ codec_value' = v
              /\ codec_src' = [k \in 1..PackedLen(ty) |-> 0]
              /\ codec_buf' = pack(ty, v)
              /\ codec_res' = unpack_from_slice(ty, pack(ty, v))
    /\ codec_op' = "round_trip"
    /\ UNCHANGED <<engine_vars, cal_vars, dio_vars, ext_vars>>

\* the caller is done with what the call returned
CodecReturn ==
    /\ codec_op /= "none"
    /\ codec_op' = "none"
    /\ codec_ty' = "none"
    /\ codec_value' = 0
    /\ codec_src' = <<>>
    /\ codec_buf' = <<>>
    /\ codec_res' = NoResult
    /\ UNCHANGED <<engine_vars, cal_vars, dio_vars, ext_vars>>

InitCodec == EngineInit /\ bus = <<>> /\ CalInit /\ CodecInit /\ DioInit /\ ExtInit

NextCodec ==
    \/ Derive
    \/ PackToSlice
    \/ UnpackFromSlice
    \/ RoundTrip
    \/ CodecReturn

SpecCodec == InitCodec /\ [][NextCodec]_vars

(***************************************************************************)
(* The digital input terminal: one El1008 and the calls of its             *)
(* process_data, each with the input slice the caller passes.              *)
(***************************************************************************)
\* consecutive calls with a wrong length that are told apart
MaxRun == 3
\* El1008 = El1xxx<El1008Info, 8, 1>: N
El1008_N == 8
\* impl Entries<8> for El1008Info
El1008_ENTRIES == <<1, 5, 2, 6, 3, 7, 4, 8>>

\* input_data.view_bits::<Lsb0>(): the bits of the slice, bit 0 of byte 0
\* first
view_bits(input) ==
    [k \in 1..(8 * Len(input)) |-> Bit(input[((k - 1) \div 8) + 1], (k - 1) % 8) = 1]

\* the body of `for (idx, bit) in input_bits.iter().enumerate()`: the
\* async_send of the bit on signals[idx] is commented out, the body is empty
LoopBody(sent, idx, bit) == sent

RECURSIVE ForEachBit(_, _, _)
ForEachBit(bits, idx, sent) ==
    IF idx >= Len(bits) THEN sent
    ELSE ForEachBit(bits, idx + 1, LoopBody(sent, idx, bits[idx + 1]))

\* the slices a call is given: every byte at the declared length, and
\* shorter and longer slices
DioInputs == Slices(El1008_ARR_LEN) \cup { <<b>> : b \in 0..255 }

\* device.process_data(&mut subdevice) on the El1008
DioProcessData ==
    /\ \E input \in DioInputs :
         LET out == El1xxx_process_data(dio_device, Len(input))
         IN /\ dio_input' = input
            /\ dio_device' = out.device
            /\ dio_res' = out.result
            /\ dio_logged' = out.logged
            /\ dio_published' = IF IsOk(out.result)
                                THEN ForEachBit(view_bits(input), 0, <<>>)
                                ELSE <<>>
            /\ dio_run' = IF Len(input) = El1008_ARR_LEN THEN 0
                          ELSE IF dio_run < MaxRun THEN dio_run + 1 ELSE dio_run
    /\ UNCHANGED <<engine_vars, cal_vars, codec_vars, ext_vars>>

InitDio == EngineInit /\ bus = <<>> /\ CalInit /\ CodecInit /\ DioInit /\ ExtInit

NextDio == DioProcessData

SpecDio == InitDio /\ [][NextDio]_vars

(***************************************************************************)
(* A device on the exchange buffer: one call of setup or of process_data   *)
(* of the device at one bus index.  The exchange buffer (the PDI of the    *)
(* group) holds, per subdevice, its input slice and its output slice;      *)
(* io_raw_mut() hands the device the two slices of its own subdevice.      *)
(***************************************************************************)
\* subdevices of the bus the device is on
DevSlots == 2
\* `if self.cnt % 1000 == 0` in El3356::process_data and I550::process_data
LOG_PERIOD == 1000

DevKinds == {"Unimplemented", "El1xxx", "El3356", "I550"}
DevBuses == [1..DevSlots -> DevKinds]

\* the input length the layout of a device declares
DeclaredInputLen(kind) ==
    CASE kind = "El3356" -> El3356_InputPdo.bytes
      [] kind = "I550" -> I550_InputPdo.bytes
      [] kind = "El1xxx" -> El1008_ARR_LEN
      [] OTHER -> 0

\* the output length the layout of a device declares
DeclaredOutputLen(kind) ==
    CASE kind = "El3356" -> El3356_OutputPdo.bytes
      [] kind = "I550" -> I550_OutputPdo.bytes
      [] OTHER -> 0

Fill(n, b) == [k \in 1..n |-> b]
Lens(d) == {n \in (d - MaxSlack)..(d + MaxSlack) : n >= 0}

\* the slices of a subdevice: of the declared lengths, shorter or longer
OwnSlices(kind) ==
    { [i |-> Fill(n, b), o |-> Fill(m, c)] :
        n \in Lens(DeclaredInputLen(kind)), b \in ByteSamples,
        m \in Lens(DeclaredOutputLen(kind)), c \in ByteSamples }

\* the slices of the subdevices that are not called
DeclaredSlices(kind) ==
    [i |-> Fill(DeclaredInputLen(kind), 180), o |-> Fill(DeclaredOutputLen(kind), 180)]

\* the values of `cnt` a device is called with
CntSamples == {0, 1, LOG_PERIOD - 2, LOG_PERIOD - 1, LOG_PERIOD, 2 * LOG_PERIOD - 1}

\* faulty variant: the output slice handed out spans every subdevice
store_outputs_all(pdi, slot, o) == [k \in 1..Len(pdi) |-> [pdi[k] EXCEPT !.o = o]]

\* device.io_raw_mut(): the input slice and the mutable output slice of the
\* subdevice the reference is for
io_raw_mut(pdi, slot) == pdi[slot + 1]

\* what the device wrote through the mutable output slice is in the
\* subdevice's own part of the exchange buffer
store_outputs(pdi, slot, o) == [pdi EXCEPT ![slot + 1].o = o]

\* Option<T> of a configuration value
NoValue == [some |-> FALSE, value |-> 0]
SomeValue(v) == [some |-> TRUE, value |-> v]
Options(values) == {NoValue} \cup {SomeValue(v) : v \in values}

\* el3356.rs: struct Config, the fields setup reads (f32 values, here whole)
El3356_Configs ==
    [nominal_value : Options({2}), gravity : Options({1}), zero_balance : Options({0})]

\* i550.rs: struct Config: the defaults, and the same with another speed range
I550_Config_default ==
    [rated_mains_voltage |-> 1, base_voltage |-> 400, base_frequency |-> 50,
     max_speed |-> 6075, min_speed |-> 0,
     acceleration |-> [numerator |-> 3000, denominator |-> 10]]
I550_Configs ==
    {I550_Config_default,
     [I550_Config_default EXCEPT !.max_speed = 3000, !.min_speed = 100]}

\* the object dictionary addresses the setups name
El3356_TX_PDO_ASSIGN == 7187     \* 0x1C13
I550_RX_PDO_ASSIGN == 7186       \* 0x1C12
I550_TX_PDO_ASSIGN == 7187       \* 0x1C13
I550_RX_PDO_MAPPING == 5637      \* 0x1605
I550_TX_PDO_MAPPING == 6661      \* 0x1A05
BASIC_MOTOR_CONTROL == 9777      \* 0x2631

\* `if let Some(v) = option { device.sdo_write_value_index(v).await?; }`
WriteIfSome(idx, sub, option) ==
    IF option.some THEN <<Write(idx, sub, option.value)>> ELSE <<>>

\* faulty variant: the assignment count is set before the second entry
El3356_setup_count_early(config) ==
    WriteIfSome(32768, 35, config.nominal_value)
    \o WriteIfSome(32768, 38, config.gravity)
    \o WriteIfSome(32768, 37, config.zero_balance)
    \o << Write(32768, 39, 1000000),
          Write(El3356_TX_PDO_ASSIGN, 0, 0),
          Write(El3356_TX_PDO_ASSIGN, 1, 6656),
          Write(El3356_TX_PDO_ASSIGN, 0, 2),
          Write(El3356_TX_PDO_ASSIGN, 2, 6657) >>

\* El3356::setup: the SDO writes it issues, in order, while none fails
El3356_setup(config) ==
    WriteIfSome(32768, 35, config.nominal_value)           \* 0x8000:23
    \o WriteIfSome(32768, 38, config.gravity)              \* 0x8000:26
    \o WriteIfSome(32768, 37, config.zero_balance)         \* 0x8000:25
    \o << Write(32768, 39, 1000000),                       \* 0x8000:27
          Write(El3356_TX_PDO_ASSIGN, 0, 0),
          Write(El3356_TX_PDO_ASSIGN, 1, 6656),            \* 0x1A00
          Write(El3356_TX_PDO_ASSIGN, 2, 6657),            \* 0x1A01
          Write(El3356_TX_PDO_ASSIGN, 0, 2) >>

\* faulty variant: the RX assignment is enabled before the TX mapping has
\* its entry count
I550_setup_count_last(config) ==
    << Write(BASIC_MOTOR_CONTROL, 4, 1),
       Write(I550_RX_PDO_ASSIGN, 0, 0),
       Write(I550_TX_PDO_ASSIGN, 0, 0),
       Write(I550_RX_PDO_MAPPING, 0, 0),
       Write(I550_RX_PDO_MAPPING, 1, 1614807056),          \* 0x60400010
       Write(I550_RX_PDO_MAPPING, 2, 1614938128),          \* 0x60420010
       Write(I550_RX_PDO_MAPPING, 0, 2),
       Write(I550_TX_PDO_MAPPING, 0, 0),
       Write(I550_TX_PDO_MAPPING, 1, 1614872592),          \* 0x60410010
       Write(I550_TX_PDO_MAPPING, 2, 1615069200),          \* 0x60440010
       Write(I550_TX_PDO_MAPPING, 3, 1614741520),          \* 0x603F0010
       Write(I550_RX_PDO_ASSIGN, 1, I550_RX_PDO_MAPPING),
       Write(I550_RX_PDO_ASSIGN, 0, 1),
       Write(I550_TX_PDO_MAPPING, 0, 3),
       Write(I550_TX_PDO_ASSIGN, 1, I550_TX_PDO_MAPPING),
       Write(I550_TX_PDO_ASSIGN, 0, 1),
       Write(24672, 0, 2),                                 \* 0x6060:00
       Write(BASIC_MOTOR_CONTROL, 1, 1),
       Write(9536, 1, config.rated_mains_voltage),         \* 0x2540:01
       Write(11009, 1, config.base_voltage),               \* 0x2B01:01
       Write(11009, 2, config.base_frequency),             \* 0x2B01:02
       Write(24704, 0, config.max_speed),                  \* 0x6080:00
       Write(24646, 2, config.max_speed),                  \* 0x6046:02
       Write(24646, 1, config.min_speed),                  \* 0x6046:01
       Write(24648, 1, config.acceleration.numerator),     \* 0x6048:01
       Write(24648, 2, config.acceleration.denominator) >> \* 0x6048:02

\* I550::setup: the SDO writes it issues, in order, while none fails
I550_setup(config) ==
    << Write(BASIC_MOTOR_CONTROL, 4, 1),
       Write(I550_RX_PDO_ASSIGN, 0, 0),
       Write(I550_TX_PDO_ASSIGN, 0, 0),
       Write(I550_RX_PDO_MAPPING, 0, 0),
       Write(I550_RX_PDO_MAPPING, 1, 1614807056),          \* 0x60400010
       Write(I550_RX_PDO_MAPPING, 2, 1614938128),          \* 0x60420010
       Write(I550_RX_PDO_MAPPING, 0, 2),
       Write(I550_TX_PDO_MAPPING, 0, 0),
       Write(I550_TX_PDO_MAPPING, 1, 1614872592),          \* 0x60410010
       Write(I550_TX_PDO_MAPPING, 2, 1615069200),          \* 0x60440010
       Write(I550_TX_PDO_MAPPING, 3, 1614741520),          \* 0x603F0010
       Write(I550_TX_PDO_MAPPING, 0, 3),
       Write(I550_RX_PDO_ASSIGN, 1, I550_RX_PDO_MAPPING),
       Write(I550_RX_PDO_ASSIGN, 0, 1),
       Write(I550_TX_PDO_ASSIGN, 1, I550_TX_PDO_MAPPING),
       Write(I550_TX_PDO_ASSIGN, 0, 1),
       Write(24672, 0, 2),                                 \* 0x6060:00
       Write(BASIC_MOTOR_CONTROL, 1, 1),
       Write(9536, 1, config.rated_mains_voltage),         \* 0x2540:01
       Write(11009, 1, config.base_voltage),               \* 0x2B01:01
       Write(11009, 2, config.base_frequency),             \* 0x2B01:02
       Write(24704, 0, config.max_speed),                  \* 0x6080:00
       Write(24646, 2, config.max_speed),                  \* 0x6046:02
       Write(24646, 1, config.min_speed),                  \* 0x6046:01
       Write(24648, 1, config.acceleration.numerator),     \* 0x6048:01
       Write(24648, 2, config.acceleration.denominator) >> \* 0x6048:02

\* the configurations a device of a kind can hold
Configs(kind) ==
    CASE kind = "El3356" -> El3356_Configs
      [] kind = "I550" -> I550_Configs
      [] OTHER -> {<<>>}

\* faulty variant: the unimplemented device probes the subdevice
setup_writes_probing(kind, config) == <<Write(4120, 0, 0)>>

\* Device::setup of each kind: the SDO writes it issues while none fails;
\* UnimplementedDevice::setup and El1xxx::setup are `Ok(())` alone
setup_writes(kind, config) ==
    CASE kind = "El3356" -> El3356_setup(config)
      [] kind = "I550" -> I550_setup(config)
      [] OTHER -> <<>>

\* what a process_data call leaves: its result, the output slice and `cnt`
Left(r, o, cnt) == [res |-> r, o |-> o, cnt |-> cnt]

\* UnimplementedDevice::process_data: `Ok(())` alone
Unimplemented_process_data(cnt, i, o) == Left(Ok, o, cnt)

\* faulty variant: the input is unpacked and the control word is packed on
\* every call
El3356_process_data_pdi_every_call(cnt, i, o) ==
    LET cnt1 == cnt + 1
        input_pdo == unpack_from_slice("El3356_InputPdo", i)
        output_pdo == [control_word |->
                         [start_calibration |-> FALSE, disable_calibration |-> TRUE,
                          input_freeze |-> FALSE, sample_mode |-> FALSE,
                          tare |-> FALSE]]
        packed == pack_to_slice("El3356_OutputPdo", output_pdo, o)
    IN IF ~IsOk(input_pdo) THEN Left(Panic, o, cnt1)
       ELSE IF ~IsOk(packed.res) THEN Left(Panic, o, cnt1)
       ELSE Left(Ok, packed.buf, cnt1)

\* El3356::process_data on the slices of io_raw_mut(): cnt += 1; every
\* LOG_PERIOD-th call unpacks the input and packs a control word with
\* disable_calibration alone into the output, each with expect()
El3356_process_data_pdi(cnt, i, o) ==
    LET cnt1 == cnt + 1
        input_pdo == unpack_from_slice("El3356_InputPdo", i)
        output_pdo == [control_word |->
                         [start_calibration |-> FALSE, disable_calibration |-> TRUE,
                          input_freeze |-> FALSE, sample_mode |-> FALSE,
                          tare |-> FALSE]]
        packed == pack_to_slice("El3356_OutputPdo", output_pdo, o)
    IN IF cnt1 % LOG_PERIOD /= 0 THEN Left(Ok, o, cnt1)
       ELSE IF ~IsOk(input_pdo) THEN Left(Panic, o, cnt1)
       ELSE IF ~IsOk(packed.res) THEN Left(Panic, o, cnt1)
       ELSE Left(Ok, packed.buf, cnt1)

\* CiA402::transition(state, Run, true) is declared outside these sources:
\* the control word it returns is any 16-bit word
CiA402_ControlWords == U16Samples

\* I550::process_data on the slices of io_raw_mut(): the two length guards
\* return Ok(()) early; else the input is unpacked, the control word of the
\* transition and speed 1000 are packed into the output, and cnt += 1
I550_process_data_pdi(cnt, i, o, control_word) ==
    LET input_pdo == unpack_from_slice("I550_InputPdo", i)
        output_pdo == [control_word |-> control_word, speed |-> 1000]
        packed == pack_to_slice("I550_OutputPdo", output_pdo, o)
    IN IF Len(o) /= 4 THEN Left(Ok, o, cnt)
       ELSE IF Len(i) /= 6 THEN Left(Ok, o, cnt)
       ELSE IF ~IsOk(input_pdo) THEN Left(Panic, o, cnt)
       ELSE IF ~IsOk(packed.res) THEN Left(Panic, o, cnt)
       ELSE Left(Ok, packed.buf, cnt + 1)

\* El1xxx::process_data reads inputs_raw() and has no output
El1xxx_process_data_pdi(slot, i, o) ==
    Left(El1xxx_process_data(make_device("El1008", slot), Len(i)).result, o, 0)

\* device.process_data(&mut subdevice) by the kind of the device
process_data_pdi(kind, slot, cnt, i, o, control_word) ==
    CASE kind = "El3356" -> El3356_process_data_pdi(cnt, i, o)
      [] kind = "I550" -> I550_process_data_pdi(cnt, i, o, control_word)
      [] kind = "El1xxx" -> El1xxx_process_data_pdi(slot, i, o)
      [] OTHER -> Unimplemented_process_data(cnt, i, o)

\* the kinds that keep a `cnt`
Counting == {"El3356", "I550"}

\* device.setup(&mut subdevice) of the device at a bus index: its writes are
\* issued in order; the first that fails ends the setup with its error
DevSetup ==
    /\ dev_op = "none"
    /\ \E b \in DevBuses, slot \in 0..(DevSlots - 1) :
         \E config \in Configs(b[slot + 1]) :
           LET writes == setup_writes(b[slot + 1], config)
               pdi == [k \in 1..DevSlots |-> DeclaredSlices(b[k])]
           IN \E fail \in 0..Len(writes), c \in Causes :
                /\ dev_bus' = b
                /\ dev_slot' = slot
                /\ dev_conf' = config
                /\ dev_pdi0' = pdi
                /\ dev_pdi' = pdi
                /\ dev_sdo' = [k \in 1..(IF fail = 0 THEN Len(writes) ELSE fail) |->
                                 [step |-> writes[k], ok |-> k /= fail]]
                /\ dev_res' = IF fail = 0 THEN Ok ELSE Err(c)
    /\ dev_op' = "setup"
    /\ dev_cnt0' = 0
    /\ dev_cnt' = 0
    /\ UNCHANGED <<engine_vars, cal_vars, codec_vars, dio_vars, conf_vars, key_vars, sm_vars, stat_vars, ops_vars>>

\* device.process_data(&mut subdevice) of the device at a bus index, on an
\* exchange buffer of any content
DevProcessData ==
    /\ dev_op = "none"
    /\ \E b \in DevBuses, slot \in 0..(DevSlots - 1) :
         \E own \in OwnSlices(b[slot + 1]),
            cnt \in IF b[slot + 1] \in Counting THEN CntSamples ELSE {0},
            control_word \in IF b[slot + 1] = "I550" THEN CiA402_ControlWords ELSE {0} :
           LET pdi == [k \in 1..DevSlots |->
                         IF k = slot + 1 THEN own ELSE DeclaredSlices(b[k])]
               io == io_raw_mut(pdi, slot)
               left == process_data_pdi(b[slot + 1], slot, cnt, io.i, io.o, control_word)
           IN /\ dev_bus' = b
              /\ dev_slot' = slot
              /\ dev_cnt0' = cnt
              /\ dev_cnt' = left.cnt
              /\ dev_pdi0' = pdi
              /\ dev_pdi' = store_outputs(pdi, slot, left.o)
              /\ dev_res' = left.res
    /\ dev_op' = "process_data"
    /\ dev_conf' = <<>>
    /\ dev_sdo' = <<>>
    /\ UNCHANGED <<engine_vars, cal_vars, codec_vars, dio_vars, conf_vars, key_vars, sm_vars, stat_vars, ops_vars>>

\* the caller is done with what the call returned
DevReturn ==
    /\ dev_op /= "none"
    /\ dev_op' = "none"
    /\ dev_bus' = <<>>
    /\ dev_slot' = 0
    /\ dev_conf' = <<>>
    /\ dev_cnt0' = 0
    /\ dev_cnt' = 0
    /\ dev_pdi0' = <<>>
    /\ dev_pdi' = <<>>
    /\ dev_sdo' = <<>>
    /\ dev_res' = NoResult
    /\ UNCHANGED <<engine_vars, cal_vars, codec_vars, dio_vars, conf_vars, key_vars, sm_vars, stat_vars, ops_vars>>

InitDev == EngineInit /\ bus = <<>> /\ CalInit /\ CodecInit /\ DioInit /\ ExtInit

NextDev ==
    \/ DevSetup
    \/ DevProcessData
    \/ DevReturn

SpecDev == InitDev /\ [][NextDev]_vars

(***************************************************************************)
(* The bus configuration: what Bus::new and Bus::run read of it, while a   *)
(* client of the configuration manager may store another value.            *)
(***************************************************************************)
\* restarts of run() that are told apart
MaxRestarts == 2

\* `self.config.read().cycle_time` in Bus::run: the value the manager holds
\* at the time of the call
cycle_time_read(stored, new) == stored.cycle_time

\* a client stores another configuration through the manager
ConfSet ==
    /\ \E c \in BusConfigs \ {conf_stored} : conf_stored' = c
    /\ UNCHANGED <<engine_vars, cal_vars, codec_vars, dio_vars, dev_vars, key_vars, sm_vars, stat_vars,
                   conf_new, conf_iface, conf_pc, conf_period, conf_runs, ops_vars>>

\* main calls bus.run() after an init() that succeeded:
\* tokio::time::interval(self.config.read().cycle_time.into())
ConfRunCall ==
    /\ conf_pc = "main"
    /\ conf_pc' = "run"
    /\ conf_period' = cycle_time_read(conf_stored, conf_new)
    /\ conf_runs' = IF conf_runs <= MaxRestarts THEN conf_runs + 1 ELSE conf_runs
    /\ UNCHANGED <<engine_vars, cal_vars, codec_vars, dio_vars, dev_vars, key_vars, sm_vars, stat_vars,
                   conf_stored, conf_new, conf_iface, ops_vars>>

\* run() returns an error; main goes back to init()
ConfRunReturn ==
    /\ conf_pc = "run"
    /\ conf_pc' = "main"
    /\ UNCHANGED <<engine_vars, cal_vars, codec_vars, dio_vars, dev_vars, key_vars, sm_vars, stat_vars,
                   conf_stored, conf_new, conf_iface, conf_period, conf_runs, ops_vars>>

InitConf ==
    /\ EngineInit /\ bus = <<>> /\ CalInit /\ CodecInit /\ DioInit
    /\ DevInit /\ ConfInit /\ KeyInit /\ SmInit /\ StatInit /\ OpsInit

NextConf ==
    \/ ConfSet
    \/ ConfRunCall
    \/ ConfRunReturn

SpecConf == InitConf /\ [][NextConf]_vars

(***************************************************************************)
(* The keys of the persisted configurations: El3356::new and I550::new     *)
(* name the configuration of a device after its bus index and its alias    *)
(* address.  A string is the sequence of its characters.                   *)
(***************************************************************************)
\* largest bus index (slave_number) a terminal is given
MaxSlave == 11
\* the alias addresses a terminal is given; 0 is "no alias"
AliasSamples == {0, 1, 11}

Digit(d) == <<"0", "1", "2", "3", "4", "5", "6", "7", "8", "9">>[d + 1]

\* `{n}` of format!: the decimal digits of an unsigned integer
RECURSIVE Display(_)
Display(n) == IF n < 10 THEN <<Digit(n)>> ELSE Display(n \div 10) \o <<Digit(n % 10)>>

\* El3356::new: format!("el3356_{slave_number}"), replaced by
\* format!("el3356_alias_{alias_address}") when the alias is not 0
El3356_prefix(slave_number, alias_address) ==
    IF alias_address /= 0
    THEN <<"e", "l", "3", "3", "5", "6", "_", "a", "l", "i", "a", "s", "_">>
            \o Display(alias_address)
    ELSE <<"e", "l", "3", "3", "5", "6", "_">> \o Display(slave_number)

\* I550::new: format!("i550_slave_{slave_number}_alias_{alias_address}")
I550_key(slave_number, alias_address) ==
    <<"i", "5", "5", "0", "_", "s", "l", "a", "v", "e", "_">> \o Display(slave_number)
        \o <<"_", "a", "l", "i", "a", "s", "_">> \o Display(alias_address)

\* the key ConfMan::new is given, by the type of the device
config_key(type, terminal) ==
    IF type = "El3356" THEN El3356_prefix(terminal.slave_number, terminal.alias_address)
    ELSE I550_key(terminal.slave_number, terminal.alias_address)

Terminals == [slave_number : 0..MaxSlave, alias_address : AliasSamples]

\* init() makes the devices of two terminals of one type that sit at
\* different bus indices
KeyNew ==
    /\ key_type = "none"
    /\ \E type \in {"El3356", "I550"}, a \in Terminals, b \in Terminals :
         /\ a.slave_number /= b.slave_number
         /\ key_type' = type
         /\ key_a' = a
         /\ key_b' = b
         /\ key_of_a' = config_key(type, a)
         /\ key_of_b' = config_key(type, b)
    /\ UNCHANGED <<engine_vars, cal_vars, codec_vars, dio_vars, dev_vars, conf_vars, sm_vars, stat_vars, ops_vars>>

\* the next init() clears the devices
KeyClear ==
    /\ key_type /= "none"
    /\ key_type' = "none"
    /\ key_a' = <<>>
    /\ key_b' = <<>>
    /\ key_of_a' = <<>>
    /\ key_of_b' = <<>>
    /\ UNCHANGED <<engine_vars, cal_vars, codec_vars, dio_vars, dev_vars, conf_vars, sm_vars, stat_vars, ops_vars>>

InitKey == EngineInit /\ bus = <<>> /\ CalInit /\ CodecInit /\ DioInit /\ ExtInit

NextKey ==
    \/ KeyNew
    \/ KeyClear

SpecKey == InitKey /\ [][NextKey]_vars

(***************************************************************************)
(* The calibration session: the state machine `Calibrate` that el3356.rs   *)
(* declares with smlang::statemachine!.  process_event takes a transition  *)
(* that is declared for the state and the event; for any other event it    *)
(* returns Error::InvalidEvent and the state stays.                        *)
(***************************************************************************)
\* events given to one machine
MaxEvents == 4

CalibrateStates == {"Idle", "ZeroCalibration", "Calibration"}
CalibrateEvents == {"SetZeroCalibration", "SetCalibration", "SetIdle"}

\* transitions: { .. }
transitions ==
    { <<"Idle", "SetZeroCalibration", "ZeroCalibration">>,
      <<"ZeroCalibration", "SetCalibration", "Calibration">>,
      <<"Calibration", "SetIdle", "Idle">> }

InvalidEvent == Err("InvalidEvent")

\* StateMachine::process_event
process_event(state, event) ==
    LET declared == {t \in transitions : t[1] = state /\ t[2] = event}
    IN IF declared = {} THEN [res |-> InvalidEvent, state |-> state]
       ELSE [res |-> Ok, state |-> (CHOOSE t \in declared : TRUE)[3]]

\* sm.process_event(event)
SmProcessEvent ==
    /\ Len(sm_log) < MaxEvents
    /\ \E event \in CalibrateEvents :
         LET out == process_event(sm_state, event)
         IN /\ sm_state' = out.state
            /\ sm_log' = Append(sm_log, [event |-> event, from |-> sm_state,
                                         ok |-> IsOk(out.res)])
    /\ UNCHANGED <<engine_vars, cal_vars, codec_vars, dio_vars, dev_vars, conf_vars,
                   key_vars, stat_vars, ops_vars>>

\* StateMachine::new(): another session starts
SmNew ==
    /\ sm_log /= <<>>
    /\ sm_state' = "Idle"
    /\ sm_log' = <<>>
    /\ UNCHANGED <<engine_vars, cal_vars, codec_vars, dio_vars, dev_vars, conf_vars,
                   key_vars, stat_vars, ops_vars>>

InitSm == EngineInit /\ bus = <<>> /\ CalInit /\ CodecInit /\ DioInit /\ ExtInit

NextSm ==
    \/ SmProcessEvent
    \/ SmNew

SpecSm == InitSm /\ [][NextSm]_vars

(***************************************************************************)
(* The statistics of Bus::run: the counter `cnt` and the two accumulated   *)
(* durations, and the report every TICKS_PER_REPORT ticks.  `cnt` is an    *)
(* i32 (an integer literal with no other constraint): `cnt += 1` at        *)
(* i32::MAX panics in a build with overflow checks and wraps to i32::MIN   *)
(* in a build without.                                                     *)
(***************************************************************************)
\* `if cnt % 1000 == 0`, `tx_rx_duration/1000`
TICKS_PER_REPORT == 1000
I32_MAX == 2147483647
I32_MIN == (0 - 2147483647) - 1
\* windows of a run that are walked tick by tick from its start
MaxWindows == 2
\* awaits of one run that take MaxElapsed time units instead of one
MaxSlow == 1

\* the largest multiple of TICKS_PER_REPORT an i32 holds
LastReport == I32_MAX - (I32_MAX % TICKS_PER_REPORT)

\* the `%` of Rust on i32: the remainder has the sign of the dividend
rem(a, b) ==
    LET m == a % b
    IN IF a < 0 /\ m /= 0 THEN m - b ELSE m

\* `tx_rx_duration = Duration::ZERO; process_data_duration = Duration::ZERO`
after_report(total) == 0

\* main calls bus.run(): cnt = 0, both durations = Duration::ZERO
StatRunCall ==
    /\ stat_pc = "main"
    /\ stat_pc' = "tx_rx"
    /\ stat_cnt' = 0
    /\ stat_tx' = 0
    /\ stat_pd' = 0
    /\ stat_since' = 0
    /\ stat_g_tx' = 0
    /\ stat_g_pd' = 0
    /\ stat_slow' = 0
    /\ stat_report' = NoReport
    /\ UNCHANGED <<engine_vars, cal_vars, codec_vars, dio_vars, dev_vars, conf_vars,
                   key_vars, sm_vars, ops_vars>>

\* the ticks that are walked one by one: those of the first windows of a
\* run, and those from the last report an i32 counts to the first after it
Walked(cnt) ==
    \/ (cnt >= 0 /\ cnt < MaxWindows * TICKS_PER_REPORT)
    \/ cnt >= LastReport
    \/ cnt < 0 - LastReport

\* what an await takes: a time unit, or MaxElapsed for one of the slow ones
Elapsed == {[time |-> 1, slow |-> 0]}
               \cup {[time |-> MaxElapsed, slow |-> 1] : x \in {y \in {1} : stat_slow < MaxSlow}}

\* run() returns the error of `?`: its locals are gone
StatRunReturn ==
    /\ stat_pc' = "main"
    /\ stat_cnt' = 0
    /\ stat_tx' = 0
    /\ stat_pd' = 0
    /\ stat_since' = 0
    /\ stat_g_tx' = 0
    /\ stat_g_pd' = 0
    /\ stat_slow' = 0
    /\ stat_report' = NoReport

\* group.tx_rx(..).await?; tx_rx_duration += tx_rx_instant.elapsed()
StatTxRx ==
    /\ stat_pc = "tx_rx"
    /\ \/ /\ Walked(stat_cnt)
          /\ \E e \in Elapsed :
               /\ stat_tx' = stat_tx + e.time
               /\ stat_g_tx' = stat_g_tx + e.time
               /\ stat_slow' = stat_slow + e.slow
          /\ stat_pc' = "process_data"
          /\ UNCHANGED <<stat_cnt, stat_pd, stat_since, stat_g_pd, stat_report>>
       \/ StatRunReturn
    /\ UNCHANGED <<engine_vars, cal_vars, codec_vars, dio_vars, dev_vars, conf_vars,
                   key_vars, sm_vars, ops_vars>>

\* the dispatch loop; process_data_duration += process_data_instant.elapsed()
StatProcessData ==
    /\ stat_pc = "process_data"
    /\ \/ /\ \E e \in Elapsed :
               /\ stat_pd' = stat_pd + e.time
               /\ stat_g_pd' = stat_g_pd + e.time
               /\ stat_slow' = stat_slow + e.slow
          /\ stat_pc' = "tick"
          /\ UNCHANGED <<stat_cnt, stat_tx, stat_since, stat_g_tx, stat_report>>
       \/ StatRunReturn
    /\ UNCHANGED <<engine_vars, cal_vars, codec_vars, dio_vars, dev_vars, conf_vars,
                   key_vars, sm_vars, ops_vars>>

\* the end of an iteration with the counter at cnt: the report and the
\* restart of the measurement if cnt is a multiple of TICKS_PER_REPORT
StatEndOfTick(cnt) ==
    /\ stat_cnt' = cnt
    /\ stat_pc' = "tx_rx"
    /\ stat_slow' = stat_slow
    /\ IF rem(cnt, TICKS_PER_REPORT) = 0
       THEN /\ stat_report' = [at |-> cnt, ticks |-> stat_since + 1,
                               tx_total |-> stat_tx, pd_total |-> stat_pd,
                               tx |-> stat_tx \div TICKS_PER_REPORT,
                               pd |-> stat_pd \div TICKS_PER_REPORT,
                               g_tx |-> stat_g_tx, g_pd |-> stat_g_pd]
            /\ stat_tx' = after_report(stat_tx)
            /\ stat_pd' = after_report(stat_pd)
            /\ stat_since' = 0
            /\ stat_g_tx' = 0
            /\ stat_g_pd' = 0
       ELSE /\ stat_since' = stat_since + 1
            /\ UNCHANGED <<stat_tx, stat_pd, stat_g_tx, stat_g_pd, stat_report>>

\* tick_interval.tick().await; cnt += 1; if cnt % 1000 == 0 { .. }
StatTick ==
    /\ stat_pc = "tick"
    /\ IF stat_cnt < I32_MAX
       THEN StatEndOfTick(stat_cnt + 1)
       ELSE \/ StatEndOfTick(I32_MIN)
            \/ /\ stat_pc' = "panicked"
               /\ UNCHANGED <<stat_cnt, stat_tx, stat_pd, stat_since, stat_g_tx, stat_g_pd,
                              stat_slow, stat_report>>
    /\ UNCHANGED <<engine_vars, cal_vars, codec_vars, dio_vars, dev_vars, conf_vars,
                   key_vars, sm_vars, ops_vars>>

\* the iterations from a report to the last report an i32 counts to, each
\* window like the one before it: a report every TICKS_PER_REPORT ticks, the
\* measurement restarted
StatWindows ==
    /\ stat_pc = "tx_rx"
    /\ stat_cnt > 0
    /\ stat_cnt < LastReport
    /\ stat_since = 0
    /\ stat_cnt' = LastReport
    /\ stat_report' = [at |-> LastReport, ticks |-> TICKS_PER_REPORT,
                       tx_total |-> TICKS_PER_REPORT, pd_total |-> TICKS_PER_REPORT,
                       tx |-> 1, pd |-> 1,
                       g_tx |-> TICKS_PER_REPORT, g_pd |-> TICKS_PER_REPORT]
    /\ UNCHANGED <<stat_pc, stat_tx, stat_pd, stat_since, stat_g_tx, stat_g_pd, stat_slow>>
    /\ UNCHANGED <<engine_vars, cal_vars, codec_vars, dio_vars, dev_vars, conf_vars,
                   key_vars, sm_vars, ops_vars>>

InitStat == EngineInit /\ bus = <<>> /\ CalInit /\ CodecInit /\ DioInit /\ ExtInit

NextStat ==
    \/ StatRunCall
    \/ StatTxRx
    \/ StatProcessData
    \/ StatTick
    \/ StatWindows

SpecStat == InitStat /\ [][NextStat]_vars

(***************************************************************************)
(* The operation mode machine (bin/operations.rs): the `Operations` state  *)
(* machine declared with smlang's statemachine!, and the handlers of the   *)
(* input slots of OperationsImpl that give it events.  process_event takes *)
(* the declared transition of the current state and the event, else the    *)
(* wildcard transition of the event; it calls the guard, the action, the   *)
(* exit callback of the state left and the entry callback of the state     *)
(* entered; with no transition it returns InvalidEvent and the state stays.*)
(***************************************************************************)
OperationsStates ==
    {"Init", "Stopped", "Starting", "Running", "Stopping", "Cleaning", "Emergency",
     "Fault", "Maintenance"}

OperationsEvents ==
    {"SetStopped", "SetStarting", "RunButton", "StartingTimeout", "StartingFinished",
     "StoppingTimeout", "StoppingFinished", "CleaningButton", "SetCleaning",
     "SetEmergency", "EmergencyOn", "EmergencyOff", "FaultOn", "SetFault", "FaultOff",
     "MaintenanceButton", "SetMaintenance"}

\* one line of `transitions: { .. }`: `from + event [guard] / action = to`;
\* from is "_" for the wildcard, guard is "none" where the line has none
T(from, event, guard, action, to) ==
    [from |-> from, event |-> event, guard |-> guard, action |-> action, to |-> to]

\* faulty variant: the emergency transitions are declared for the running
\* plant only
Operations_transitions_no_wildcard ==
    << T("Init", "SetStopped", "none", "transition_to_stopped", "Stopped"),
       T("Stopped", "SetStarting", "none", "transition_to_starting", "Starting"),
       T("Stopped", "RunButton", "none", "transition_to_starting", "Starting"),
       T("Starting", "StartingTimeout", "none", "transition_to_running", "Running"),
       T("Starting", "StartingFinished", "none", "transition_to_running", "Running"),
       T("Running", "RunButton", "none", "transition_to_stopping", "Stopping"),
       T("Running", "SetStopped", "none", "transition_to_stopping", "Stopping"),
       T("Stopping", "StoppingTimeout", "none", "transition_to_stopped", "Stopped"),
       T("Stopping", "StoppingFinished", "none", "transition_to_stopped", "Stopped"),
       T("Stopped", "CleaningButton", "none", "transition_to_cleaning", "Cleaning"),
       T("Stopped", "SetCleaning", "none", "transition_to_cleaning", "Cleaning"),
       T("Cleaning", "CleaningButton", "none", "transition_to_stopped", "Stopped"),
       T("Cleaning", "SetStopped", "none", "transition_to_stopped", "Stopped"),
       T("Running", "SetEmergency", "none", "transition_to_emergency", "Emergency"),
       T("Running", "EmergencyOn", "none", "transition_to_emergency", "Emergency"),
       T("Emergency", "EmergencyOff", "!is_fault", "transition_to_stopped", "Stopped"),
       T("Emergency", "EmergencyOff", "is_fault", "transition_to_fault", "Fault"),
       T("Stopped", "FaultOn", "none", "transition_to_fault", "Fault"),
       T("Stopped", "SetFault", "none", "transition_to_fault", "Fault"),
       T("Running", "FaultOn", "none", "transition_to_fault", "Fault"),
       T("Running", "SetFault", "none", "transition_to_fault", "Fault"),
       T("Fault", "FaultOff", "none", "transition_to_stopped", "Stopped"),
       T("Stopped", "MaintenanceButton", "none", "transition_to_maintenance", "Maintenance"),
       T("Stopped", "SetMaintenance", "none", "transition_to_maintenance", "Maintenance"),
       T("Maintenance", "MaintenanceButton", "none", "transition_to_stopped", "Stopped"),
       T("Maintenance", "SetStopped", "none", "transition_to_stopped", "Stopped") >>

\* statemachine! { name: Operations, transitions: { .. } }, in the order of
\* the declaration
Operations_transitions ==
    << T("Init", "SetStopped", "none", "transition_to_stopped", "Stopped"),
       T("Stopped", "SetStarting", "none", "transition_to_starting", "Starting"),
       T("Stopped", "RunButton", "none", "transition_to_starting", "Starting"),
       T("Starting", "StartingTimeout", "none", "transition_to_running", "Running"),
       T("Starting", "StartingFinished", "none", "transition_to_running", "Running"),
       T("Running", "RunButton", "none", "transition_to_stopping", "Stopping"),
       T("Running", "SetStopped", "none", "transition_to_stopping", "Stopping"),
       T("Stopping", "StoppingTimeout", "none", "transition_to_stopped", "Stopped"),
       T("Stopping", "StoppingFinished", "none", "transition_to_stopped", "Stopped"),
       T("Stopped", "CleaningButton", "none", "transition_to_cleaning", "Cleaning"),
       T("Stopped", "SetCleaning", "none", "transition_to_cleaning", "Cleaning"),
       T("Cleaning", "CleaningButton", "none", "transition_to_stopped", "Stopped"),
       T("Cleaning", "SetStopped", "none", "transition_to_stopped", "Stopped"),
       T("_", "SetEmergency", "none", "transition_to_emergency", "Emergency"),
       T("_", "EmergencyOn", "none", "transition_to_emergency", "Emergency"),
       T("Emergency", "EmergencyOff", "!is_fault", "transition_to_stopped", "Stopped"),
       T("Emergency", "EmergencyOff", "is_fault", "transition_to_fault", "Fault"),
       T("Stopped", "FaultOn", "none", "transition_to_fault", "Fault"),
       T("Stopped", "SetFault", "none", "transition_to_fault", "Fault"),
       T("Running", "FaultOn", "none", "transition_to_fault", "Fault"),
       T("Running", "SetFault", "none", "transition_to_fault", "Fault"),
       T("Fault", "FaultOff", "none", "transition_to_stopped", "Stopped"),
       T("Stopped", "MaintenanceButton", "none", "transition_to_maintenance", "Maintenance"),
       T("Stopped", "SetMaintenance", "none", "transition_to_maintenance", "Maintenance"),
       T("Maintenance", "MaintenanceButton", "none", "transition_to_stopped", "Stopped"),
       T("Maintenance", "SetStopped", "none", "transition_to_stopped", "Stopped") >>

\* faulty variant: the fault input is taken to be raised
is_fault_raised == TRUE

\* OperationsImpl::is_fault: Ok(false)
is_fault == FALSE

\* the guard of a transition, as the machine evaluates it
GuardPasses(guard) ==
    CASE guard = "is_fault" -> is_fault
      [] guard = "!is_fault" -> ~is_fault
      [] OTHER -> TRUE

\* the transitions the machine has for a state and an event, in the order of
\* the declaration: those declared for the state, and where there is none
\* the wildcard's
Candidates(state, event) ==
    LET declared == SelectSeq(Operations_transitions,
                              LAMBDA t : t.from = state /\ t.event = event)
        wildcard == SelectSeq(Operations_transitions,
                              LAMBDA t : t.from = "_" /\ t.event = event)
    IN IF declared /= <<>> THEN declared ELSE wildcard

GuardFailed == Err("GuardFailed")

\* OperationsStateMachine::process_event: the first candidate whose guard
\* passes is taken: its action, on_exit_<state left>, on_entry_<state
\* entered>, then the state changes
Operations_process_event(state, event) ==
    LET candidates == Candidates(state, event)
        passing == SelectSeq(candidates, LAMBDA t : GuardPasses(t.guard))
    IN IF candidates = <<>>
       THEN [res |-> InvalidEvent, state |-> state, actions |-> <<>>]
       ELSE IF passing = <<>>
       THEN [res |-> GuardFailed, state |-> state, actions |-> <<>>]
       ELSE [res |-> Ok, state |-> passing[1].to,
             actions |-> << <<"action", passing[1].action>>, <<"on_exit", state>>,
                            <<"on_entry", passing[1].to>> >>]

\* the handlers OperationsImpl::new registers on the input slots
Handlers ==
    {"on_starting_finished", "on_stopping_finished", "on_run_button",
     "on_cleaning_button", "on_maintenance_button", "on_emergency_in", "on_fault_in"}

\* faulty variant: the handlers give their event whatever the value is
RaisedOnAnyValue(handler, val) ==
    CASE handler = "on_starting_finished" -> {"StartingFinished"}
      [] handler = "on_stopping_finished" -> {"StoppingFinished"}
      [] handler = "on_run_button" -> {"RunButton"}
      [] handler = "on_cleaning_button" -> {"CleaningButton"}
      [] handler = "on_maintenance_button" -> {"MaintenanceButton"}
      [] handler = "on_emergency_in" -> IF val THEN {"EmergencyOn"} ELSE {"EmergencyOff"}
      [] OTHER -> {}

\* the event a handler gives the machine for a value of its input: the
\* button and finished handlers return at once on false (`if !val { return; }`),
\* on_emergency_in has an event for either value, the body of on_fault_in is
\* commented out
Raised(handler, val) ==
    CASE handler = "on_starting_finished" -> IF val THEN {"StartingFinished"} ELSE {}
      [] handler = "on_stopping_finished" -> IF val THEN {"StoppingFinished"} ELSE {}
      [] handler = "on_run_button" -> IF val THEN {"RunButton"} ELSE {}
      [] handler = "on_cleaning_button" -> IF val THEN {"CleaningButton"} ELSE {}
      [] handler = "on_maintenance_button" -> IF val THEN {"MaintenanceButton"} ELSE {}
      [] handler = "on_emergency_in" -> IF val THEN {"EmergencyOn"} ELSE {"EmergencyOff"}
      [] OTHER -> {}

\* the machine is given an event, or the call ends without one
Given(events) ==
    IF events = {}
    THEN /\ ops_event' = "none"
         /\ ops_res' = NoResult
         /\ ops_actions' = <<>>
         /\ UNCHANGED <<ops_state, ops_trail>>
    ELSE \E event \in events :
           LET out == Operations_process_event(ops_state, event)
           IN /\ ops_event' = event
              /\ ops_res' = out.res
              /\ ops_actions' = out.actions
              /\ ops_state' = out.state
              /\ ops_trail' = IF \E p \in 1..Len(ops_trail) : ops_trail[p] = out.state
                              THEN ops_trail ELSE Append(ops_trail, out.state)

\* a value arrives on an input slot: the callback locks the OperationsImpl
\* and calls the handler with it
Handle(handler) ==
    /\ \E val \in BOOLEAN :
         /\ ops_call' = [handler |-> handler, val |-> val]
         /\ Given(Raised(handler, val))
    /\ ops_from' = ops_state

on_starting_finished ==
    /\ Handle("on_starting_finished")
    /\ UNCHANGED <<engine_vars, cal_vars, codec_vars, dio_vars, dev_vars, conf_vars,
                   key_vars, sm_vars, stat_vars>>

on_stopping_finished ==
    /\ Handle("on_stopping_finished")
    /\ UNCHANGED <<engine_vars, cal_vars, codec_vars, dio_vars, dev_vars, conf_vars,
                   key_vars, sm_vars, stat_vars>>

on_run_button ==
    /\ Handle("on_run_button")
    /\ UNCHANGED <<engine_vars, cal_vars, codec_vars, dio_vars, dev_vars, conf_vars,
                   key_vars, sm_vars, stat_vars>>

on_cleaning_button ==
    /\ Handle("on_cleaning_button")
    /\ UNCHANGED <<engine_vars, cal_vars, codec_vars, dio_vars, dev_vars, conf_vars,
                   key_vars, sm_vars, stat_vars>>

on_maintenance_button ==
    /\ Handle("on_maintenance_button")
    /\ UNCHANGED <<engine_vars, cal_vars, codec_vars, dio_vars, dev_vars, conf_vars,
                   key_vars, sm_vars, stat_vars>>

on_emergency_in ==
    /\ Handle("on_emergency_in")
    /\ UNCHANGED <<engine_vars, cal_vars, codec_vars, dio_vars, dev_vars, conf_vars,
                   key_vars, sm_vars, stat_vars>>

on_fault_in ==
    /\ Handle("on_fault_in")
    /\ UNCHANGED <<engine_vars, cal_vars, codec_vars, dio_vars, dev_vars, conf_vars,
                   key_vars, sm_vars, stat_vars>>

\* sm.process_event(event) on a machine that is in any of its states, with
\* any event of the machine
OpsProcessEvent ==
    /\ ops_call = NoCall
    /\ ops_call' = [handler |-> "process_event", val |-> TRUE]
    /\ Given(OperationsEvents)
    /\ ops_from' = ops_state
    /\ UNCHANGED <<engine_vars, cal_vars, codec_vars, dio_vars, dev_vars, conf_vars,
                   key_vars, sm_vars, stat_vars>>

\* a handler is called with a value on a machine that is in any of its
\* states
OpsHandle ==
    /\ ops_call = NoCall
    /\ \E handler \in Handlers : Handle(handler)
    /\ UNCHANGED <<engine_vars, cal_vars, codec_vars, dio_vars, dev_vars, conf_vars,
                   key_vars, sm_vars, stat_vars>>

\* another machine, in any of its states
OpsNew ==
    /\ ops_call /= NoCall
    /\ ops_state' \in OperationsStates
    /\ ops_from' = ops_state'
    /\ ops_call' = NoCall
    /\ ops_event' = "none"
    /\ ops_res' = NoResult
    /\ ops_actions' = <<>>
    /\ ops_trail' = <<ops_state'>>
    /\ UNCHANGED <<engine_vars, cal_vars, codec_vars, dio_vars, dev_vars, conf_vars,
                   key_vars, sm_vars, stat_vars>>

\* the process: the machine starts in Init and gets its events from the
\* handlers alone
InitOps == EngineInit /\ bus = <<>> /\ CalInit /\ CodecInit /\ DioInit /\ ExtInit

NextOps ==
    \/ on_starting_finished
    \/ on_stopping_finished
    \/ on_run_button
    \/ on_cleaning_button
    \/ on_maintenance_button
    \/ on_emergency_in
    \/ on_fault_in

SpecOps == InitOps /\ [][NextOps]_vars

\* the machine by itself: in any of its states, given any of its events
\* directly or by a handler
InitOpsSm ==
    /\ EngineInit /\ bus = <<>> /\ CalInit /\ CodecInit /\ DioInit
    /\ DevInit /\ ConfInit /\ conf_stored = BusConfig_default /\ KeyInit /\ SmInit
    /\ StatInit
    /\ ops_state \in OperationsStates
    /\ ops_from = ops_state
    /\ ops_call = NoCall
    /\ ops_event = "none"
    /\ ops_res = NoResult
    /\ ops_actions = <<>>
    /\ ops_trail = <<ops_state>>

NextOpsSm ==
    \/ OpsProcessEvent
    \/ OpsHandle
    \/ OpsNew

SpecOpsSm == InitOpsSm /\ [][NextOpsSm]_vars

(***************************************************************************)
(* Properties of the bus engine.                                           *)
(***************************************************************************)
Last(t) == t[Len(t)]
Events(t, name) == {p \in 1..Len(t) : t[p][1] = name}
InitPcs == {"init_single_group", "setup_loop", "setup", "into_op"}
TickPcs == {"tx_rx", "dispatch", "process_data", "tick"}

C2_SetupSequential ==
    /\ \A p \in Events(init_trace, "setup_call") :
          LET i == init_trace[p][2]
          IN /\ p > 1
             /\ init_trace[p - 1] =
                   IF i = 0 THEN <<"enumerated", Len(bus)>> ELSE <<"setup_ok", i - 1>>
    /\ \A p \in Events(init_trace, "into_op_call") :
          /\ p > 1
          /\ init_trace[p - 1] =
                IF Len(bus) = 0 THEN <<"enumerated", 0>>
                ELSE <<"setup_ok", Len(bus) - 1>>
          /\ Cardinality(Events(init_trace, "setup_ok")) = Len(bus)
    /\ \A p \in Events(init_trace, "setup_ok") \cup Events(init_trace, "setup_err") :
          /\ p > 1
          /\ init_trace[p - 1] = <<"setup_call", init_trace[p][2]>>
    /\ pc = "setup" => Last(init_trace) = <<"setup_call", index>>
    /\ \A j \in 1..Len(devices) : devices[j].index = j - 1

\* the transition to operational has started on a bus of at least two devices
C2_Witness ==
    /\ pc = "into_op"
    /\ Len(preop) >= 2
    /\ Last(init_trace) = <<"into_op_call", Len(preop)>>

\* C3: after a failed init() main sleeps the 1 second backoff and calls
\* init() again, any number of times; it never stops because init() failed,
\* and after an init() that succeeded the engine enters run().
C3_RetriesInitForever ==
    /\ [][(pc = "init_ret" /\ ~IsOk(res)) => (pc' = "sleep")]_vars
    /\ [][(pc = "sleep") => (pc' = "main" /\ slept' = BACKOFF_MS)]_vars
    /\ (pc = "init_ret" /\ ~IsOk(res)) ~> (pc = "sleep")
    /\ (pc = "sleep") ~> (pc = "init_single_group" /\ slept = BACKOFF_MS)
    /\ (pc = "init_ret" /\ IsOk(res)) ~> (pc = "tx_rx")

\* main is about to call init() again after a failure and the backoff
C3_Witness ==
    /\ pc = "main"
    /\ res \in {Err(c) : c \in Causes}
    /\ slept = BACKOFF_MS

\* C4: the tick loop runs only after an init() that enumerated the bus, set up
\* every device and made the group operational; run() is entered only with a
\* group; and an error of run() brings main back to init().
C4_TickLoopOnlyOperational ==
    /\ [](pc \in TickPcs \cup {"run"} =>
            /\ group.some
            /\ IsOk(res)
            /\ ~run_failed
            /\ Last(init_trace) = <<"into_op_ok", Len(group.subdevices)>>
            /\ Cardinality(Events(init_trace, "setup_ok")) = Len(group.subdevices)
            /\ Len(devices) = Len(group.subdevices))
    /\ [](pc = "run_ret" => run_failed)
    /\ [][(pc = "run_ret") => (pc' = "main")]_vars
    /\ [][(pc = "main") => (pc' = "init_single_group")]_vars

\* a device of a two-device bus is being dispatched
C4_Witness ==
    /\ pc = "process_data"
    /\ Len(devices) = 2
    /\ device_index = 1

\* C5: in a tick the frame exchange is first, then process_data of each
\* device in index order, each called right after the one before returned,
\* and the tick wait starts right after the last device returned; at most one
\* process_data is awaited at any time.
Dispatch(n) ==
    [p \in 1..(2 * n) |->
        IF p % 2 = 1 THEN <<"process_data_call", (p - 1) \div 2>>
        ELSE <<"process_data_ok", (p - 2) \div 2>>]

C5_TickOrder ==
    /\ pc = "tick" =>
          tick_trace = <<<<"tx_rx_ok", 0>>>> \o Dispatch(Len(group.subdevices))
                          \o <<<<"tick_call", 0>>>>
    /\ \A p \in Events(tick_trace, "process_data_call") :
          LET i == tick_trace[p][2]
          IN /\ p > 1
             /\ tick_trace[p - 1] =
                   IF i = 0 THEN <<"tx_rx_ok", 0>> ELSE <<"process_data_ok", i - 1>>
    /\ \A p \in Events(tick_trace, "process_data_ok")
                  \cup Events(tick_trace, "process_data_err") :
          /\ p > 1
          /\ tick_trace[p - 1] = <<"process_data_call", tick_trace[p][2]>>
    /\ LET calls == Cardinality(Events(tick_trace, "process_data_call"))
           returns == Cardinality(Events(tick_trace, "process_data_ok"))
                        + Cardinality(Events(tick_trace, "process_data_err"))
       IN /\ calls - returns \in {0, 1}
          /\ pc \in {"dispatch", "tick", "tx_rx", "run_ret"} => calls = returns

\* the tick wait of a three-device bus has started
C5_Witness ==
    /\ pc = "tick"
    /\ Len(group.subdevices) = 3
    /\ Len(tick_trace) = 8

\* C6: an error of the frame exchange or of a process_data makes run() return;
\* main then calls init(), and no frame exchange or dispatch happens until an
\* init() has succeeded: the failed operation is the last of its tick.
C6_RunErrorRestartsInit ==
    /\ [](run_failed => pc \notin TickPcs \cup {"run"})
    /\ [](\A p \in Events(tick_trace, "tx_rx_err")
                     \cup Events(tick_trace, "process_data_err") :
             /\ p = Len(tick_trace)
             /\ pc \notin TickPcs)
    /\ [][(pc \in TickPcs /\ run_failed') => (pc' = "run_ret")]_vars
    /\ [][(pc = "run_ret") => (pc' = "main" /\ run_failed')]_vars
    /\ [][(pc = "main") => (pc' = "init_single_group")]_vars

\* the frame exchange failed and run() has returned
C6_Witness ==
    /\ pc = "run_ret"
    /\ Last(tick_trace) = <<"tx_rx_err", 0>>
    /\ run_failed

\* C7: when process_data of device i returns an error, no device after i is
\* dispatched in that tick and no further tick runs on that group: run() is
\* over, with the dispatch stopped at i.
C7_NoQuarantine ==
    \A p \in Events(tick_trace, "process_data_err") :
        /\ p = Len(tick_trace)
        /\ device_index = tick_trace[p][2]
        /\ pc \notin TickPcs \cup {"run"}
        /\ run_failed

\* device 0 of a bus of three failed: two devices were not dispatched
C7_Witness ==
    /\ pc = "run_ret"
    /\ Last(tick_trace) = <<"process_data_err", 0>>
    /\ Len(devices) = 3

Written(step) == {p \in 1..Len(sdo_log) : sdo_log[p].step = step /\ sdo_log[p].ok}

\* C9: the span calibration command 0x0102 is written only when a zero
\* balance has completed successfully before.
C9_SpanRequiresZeroBalance ==
    (cal_fn = "calibrate" /\ Written(SpanCommand) /= {}) => zero_done

\* C10: zero_calibrate returns Ok(()) only out of a poll iteration in which
\* status (0xFB00:02) and response (0xFB00:03) were both read as 0, after the
\* zero balance command was written; while one of them is not 0 it has not
\* returned.
C10_ZeroBalanceSuccessNeedsBothZero ==
    /\ (cal_fn = "zero_calibrate" /\ IsOk(cal_res)) =>
          /\ status = 0
          /\ response = 0
          /\ polls >= 1
          /\ Written(ZeroBalanceCommand) = {Len(sdo_log)}
    /\ (cal_fn = "zero_calibrate" /\ cal_pc = "sleep") =>
          /\ status /= 0 \/ response /= 0
          /\ cal_res = Pending

\* zero_calibrate has returned Ok(()) after more than one poll iteration
C10_Witness ==
    /\ cal_fn = "zero_calibrate"
    /\ cal_pc = "idle"
    /\ IsOk(cal_res)
    /\ polls >= 2

\* C11: in zero_calibrate and in calibrate the first SDO access that fails ends
\* the call at once with that access's error: nothing is written or read after
\* it, the call has not returned Ok(()), and a command code (0xFB00:01) is never
\* written after a write that failed.
Commands == {ZeroBalanceCommand, SpanCommand, ResetCommand}

C11_FirstFailureAborts ==
    /\ sdo_err /= NoError =>
          /\ cal_pc = "idle"
          /\ cal_res = Err(sdo_err)
          /\ sdo_err \in Causes
    /\ \A p \in 1..Len(sdo_log) :
          ~sdo_log[p].ok =>
             /\ p = Len(sdo_log)
             /\ sdo_err /= NoError
    /\ \A q \in 1..Len(sdo_log) :
          sdo_log[q].step \in Commands => \A p \in 1..(q - 1) : sdo_log[p].ok
    /\ IsOk(cal_res) => (sdo_err = NoError /\ \A p \in 1..Len(sdo_log) : sdo_log[p].ok)
    /\ cal_pc /= "idle" => (sdo_err = NoError /\ cal_res = Pending)

\* calibrate has returned the error of a read of the response register, in
\* its second poll iteration or later
C11_Witness ==
    /\ cal_fn = "calibrate"
    /\ cal_pc = "idle"
    /\ sdo_err \in Causes
    /\ status = 0
    /\ response = Unread
    /\ polls >= 2
    /\ Last(sdo_log) = [step |-> SpanCommand, ok |-> TRUE]

\* C12: a calibration call does not poll forever: a call that is in its poll
\* loop leaves the loop, and when it leaves it without both registers at 0 it
\* has returned a timeout error of its own.
CalibrationTimeout == Err("CalibrationTimeout")
PollPcs == {"status", "response", "sleep"}

C12_PollingIsBounded ==
    /\ (cal_pc \in PollPcs) ~> (cal_pc \notin PollPcs)
    /\ [][(cal_pc \in PollPcs /\ cal_pc' \notin PollPcs /\ sdo_err' = NoError)
            => (PollDone(status, response') \/ cal_res' = CalibrationTimeout)]_vars

(***************************************************************************)
(* Properties of the process data codec.                                   *)
(***************************************************************************)
\* C13: for every value of a declared layout (every combination of its flags,
\* the integers over their range) unpacking the bytes that packing the value
\* gives returns that value.
C13_RoundTrip ==
    codec_op = "round_trip" =>
        /\ Len(codec_buf) = PackedLen(codec_ty)
        /\ codec_res = OkValue(codec_value)

\* a control word with start_calibration clear and tare set has gone round
C13_Witness ==
    /\ codec_op = "round_trip"
    /\ codec_ty = "ControlWord"
    /\ codec_value.tare
    /\ ~codec_value.start_calibration
    /\ codec_buf = <<16, 0>>

\* C14: pack_to_slice gives exactly the declared number of bytes and every
\* bit of them that no field covers is 0, whatever the slice held before.
C14_EncodeZeroesSkipBits ==
    (codec_op = "pack_to_slice" /\ IsOk(codec_res)) =>
        /\ Len(codec_res.value) = PackedLen(codec_ty)
        /\ IsStruct(codec_ty) =>
              \A b \in SkipBits(codec_ty) :
                  Bit(codec_res.value[(b \div 8) + 1], b % 8) = 0

\* C15: unpack_from_slice returns a value exactly for a slice of the declared
\* length: it fails for a shorter and for a longer slice.
C15_DecodeNeedsExactLength ==
    codec_op = "unpack_from_slice" =>
        /\ Len(codec_src) /= PackedLen(codec_ty) =>
              codec_res \in {Err("ReadBufferTooShort"), Err("LayoutError")}
        /\ (IsStruct(codec_ty) /\ Len(codec_src) = PackedLen(codec_ty)) => IsOk(codec_res)

\* C16: the field widths and skips of every declared layout fill its declared
\* bytes exactly (16, 16, 48, 16, 32 and 48 bits), and a declaration that does
\* not is refused by the derive, so no function packs or unpacks with it.
C16_LayoutsFillTheirFrames ==
    /\ \A ty \in StructTypes :
          TotalFieldWidth(LayoutOf(ty).fields) = 8 * LayoutOf(ty).bytes
    /\ TotalFieldWidth(StatusWord.fields) = 16
    /\ TotalFieldWidth(ControlWord.fields) = 16
    /\ TotalFieldWidth(El3356_InputPdo.fields) = 48
    /\ TotalFieldWidth(El3356_OutputPdo.fields) = 16
    /\ TotalFieldWidth(I550_OutputPdo.fields) = 32
    /\ TotalFieldWidth(I550_InputPdo.fields) = 48
    /\ codec_op = "derive" =>
          (IsOk(codec_res) <=> TotalFieldWidth(codec_value.fields) = 8 * codec_value.bytes)
    /\ (codec_op \in {"pack_to_slice", "unpack_from_slice", "round_trip"}
          /\ IsStruct(codec_ty)) =>
          TotalFieldWidth(LayoutOf(codec_ty).fields) = 8 * PackedLen(codec_ty)

\* the derive has refused a declaration of 2 bytes whose fields take 17 bits
C16_Witness ==
    /\ codec_op = "derive"
    /\ ~IsOk(codec_res)
    /\ codec_value.bytes = 2
    /\ TotalFieldWidth(codec_value.fields) = 17

C19_DigitalIoMismatchDegrades ==
    \A p \in Events(tick_trace, "process_data_err") :
        devices[tick_trace[p][2] + 1].kind = "El1xxx" =>
            /\ pc \in TickPcs
            /\ ~run_failed

\* C20: a call of process_data on the El1008 with an input of one byte sends,
\* for each of the 8 channels of ENTRIES = [1,5,2,6,3,7,4,8], exactly one
\* boolean on that channel's signal, and it is the bit of the byte at the
\* channel's position in ENTRIES, counted from the least significant bit.
C20_ChannelMapping ==
    (IsOk(dio_res) /\ Len(dio_input) = El1008_ARR_LEN) =>
        \A idx \in 1..El1008_N :
            LET sends == { p \in 1..Len(dio_published) :
                             dio_published[p].channel = El1008_ENTRIES[idx] }
            IN /\ Cardinality(sends) = 1
               /\ \A p \in sends :
                     dio_published[p].value = (Bit(dio_input[1], idx - 1) = 1)

(***************************************************************************)
(* Properties of the devices under the bus engine.                         *)
(***************************************************************************)
\* C21: when process_data of a load-cell amplifier or of a drive inverter is
\* called on a subdevice whose input slice has another length than its layout
\* declares, the call returns an error and run() returns with it: once the
\* call is over, the tick holds its error and the tick loop has ended.
C21_LengthMismatchIsFatal ==
    \A p \in Events(tick_trace, "process_data_call") :
        LET i == tick_trace[p][2]
        IN (/\ devices[i + 1].kind \in {"El3356", "I550"}
            /\ group.subdevices[i + 1].input_len /= DeclaredInputLen(devices[i + 1].kind))
           => \/ (p = Len(tick_trace) /\ pc = "process_data")
              \/ /\ p < Len(tick_trace)
                 /\ tick_trace[p + 1] = <<"process_data_err", i>>
                 /\ run_failed

\* the kind of the device that was called
Called == dev_bus[dev_slot + 1]

\* C22: a call of setup or of process_data of the device made for an identity
\* that is not registered returns Ok(()), has issued no SDO write and leaves
\* every slice of the exchange buffer as it was; the setup loop of init()
\* goes on after whatever the setup of such a device returns.
C22_NoOpDeviceNeverFails ==
    (dev_op /= "none" /\ Called = "Unimplemented")
        => /\ dev_res = Ok
           /\ dev_sdo = <<>>
           /\ dev_pdi = dev_pdi0
           /\ \A r \in SetupResults(Called) : SetupContinues(r)

\* a process_data of the unimplemented device on slices that hold bytes, and
\* behind it on the bus a device that has slices of its own
C22_Witness ==
    /\ dev_op = "process_data"
    /\ Called = "Unimplemented"
    /\ dev_slot = 0
    /\ dev_bus[2] = "I550"
    /\ Len(dev_pdi0[1].i) > 0
    /\ Len(dev_pdi0[1].o) > 0
    /\ dev_res = Ok

\* C23: inside every run(), the first and the ones after a restart, the
\* period of the tick interval is the tick period the configuration held
\* when the engine was constructed, whatever has been stored since.
C23_PeriodIsTheOneReadAtConstruction ==
    conf_pc = "run" => conf_period = conf_new.cycle_time

\* C24: two terminals of the same type at different bus indices, whatever
\* their alias addresses, get different configuration keys.
C24_KeysAreUnique ==
    key_type /= "none" => key_of_a /= key_of_b

\* the call has begun to poll
Polling == polls > 0 \/ cal_pc \in PollPcs

\* the log is the beginning of an order of writes, and only its last write
\* can have failed
Follows(log, order) ==
    /\ Len(log) <= Len(order)
    /\ \A p \in 1..Len(log) :
         /\ log[p].step = order[p]
         /\ p < Len(log) => log[p].ok

\* C25: the writes a zero_calibrate has issued are, in this order, the
\* beginning of: 0x1011:01 = 0x64616F6C, 0x8000:27 = 1, 0x8000:21 = 1,
\* 0x8000:22 = 0, 0x8000:11 = IIR8, 0x8000:24 = nominal load, 0xFB00:01 =
\* 0x0101, each issued once and after the one before it succeeded; the call
\* polls only when all seven have been written and the command write has
\* succeeded.
C25_ZeroBalanceWriteOrder ==
    cal_fn = "zero_calibrate" =>
        /\ Follows(sdo_log, << [op |-> "write", index |-> 4113, sub |-> 1, value |-> 1684107116],
                               [op |-> "write", index |-> 32768, sub |-> 39, value |-> 1],
                               [op |-> "write", index |-> 32768, sub |-> 33, value |-> 1],
                               [op |-> "write", index |-> 32768, sub |-> 34, value |-> 0],
                               [op |-> "write", index |-> 32768, sub |-> 17, value |-> 9],
                               [op |-> "write", index |-> 32768, sub |-> 36, value |-> cal_load],
                               [op |-> "write", index |-> 64256, sub |-> 1, value |-> 257] >>)
        /\ Polling => (Len(sdo_log) = 7 /\ sdo_log[7].ok)

\* a zero_calibrate with the larger load that polled more than once and
\* returned Ok(())
C25_Witness ==
    /\ cal_fn = "zero_calibrate"
    /\ cal_load = 5
    /\ cal_res = Ok
    /\ polls = MaxPolls
    /\ Len(sdo_log) = 7

\* C26: the writes a calibrate has issued are, in this order, the beginning
\* of: 0x8000:28 = reference load, 0xFB00:01 = 0x0102, 0xFB00:01 = 0x0000,
\* 0x8000:11 = the caller's filter; the call polls only after the command
\* write succeeded, and the reset (and so the filter) is written only after
\* an iteration of the poll has read both registers as 0.
C26_SpanCalibrationOrder ==
    cal_fn = "calibrate" =>
        /\ Follows(sdo_log, << [op |-> "write", index |-> 32768, sub |-> 40, value |-> cal_load],
                               [op |-> "write", index |-> 64256, sub |-> 1, value |-> 258],
                               [op |-> "write", index |-> 64256, sub |-> 1, value |-> 0],
                               [op |-> "write", index |-> 32768, sub |-> 17, value |-> cal_filter] >>)
        /\ Polling => (Len(sdo_log) >= 2 /\ sdo_log[2].ok)
        /\ (Len(sdo_log) >= 3 \/ (cal_pc = "write" /\ cal_step >= 3))
              => (polls > 0 /\ status = 0 /\ response = 0)

\* a calibrate that polled more than once, wrote the reset and a filter
\* other than the default, and returned Ok(())
C26_Witness ==
    /\ cal_fn = "calibrate"
    /\ cal_filter = 2
    /\ cal_res = Ok
    /\ polls = MaxPolls
    /\ Len(sdo_log) = 4
    /\ sdo_log[4].ok

\* C27: the span calibration command of a calibrate is written only when no
\* calibrate has failed on the device since the last zero_calibrate that
\* returned Ok(()): after a failed span calibration, the next one is not
\* carried out before the zero balance has been run again.
C27_SpanRetryNeedsZeroBalance ==
    (cal_fn = "calibrate" /\ cal_pc /= "idle" /\ Written(SpanCommand) /= {})
        => ~span_failed

\* the states a session can come to from a set of states without entering
\* the state `avoid`
RECURSIVE ReachableAvoiding(_, _)
ReachableAvoiding(from, avoid) ==
    LET more == from \cup {t[3] : t \in {u \in transitions : u[1] \in from /\ u[3] /= avoid}}
    IN IF more = from THEN from ELSE ReachableAvoiding(more, avoid)

OtherPhase(state) == IF state = "ZeroCalibration" THEN "Calibration" ELSE "ZeroCalibration"

\* C28: in each state of the session other than Idle, there are events that
\* take the session to Idle without entering the other phase.
C28_SessionCanAlwaysEnd ==
    sm_state /= "Idle" => "Idle" \in ReachableAvoiding({sm_state}, OtherPhase(sm_state))

\* C29: a report is made at every tick that completes TICKS_PER_REPORT ticks
\* since the report before it (or since run() began), so never more than
\* that many ticks go without one; a report is made only at a count that is
\* a multiple of TICKS_PER_REPORT, its two totals are the times of exactly
\* the TICKS_PER_REPORT ticks since the report before it, and both
\* accumulators are zero when the next tick begins.
C29_ReportEveryThousandTicks ==
    /\ stat_since < TICKS_PER_REPORT
    /\ stat_report /= NoReport =>
         /\ stat_report.ticks = TICKS_PER_REPORT
         /\ rem(stat_report.at, TICKS_PER_REPORT) = 0
         /\ stat_report.tx_total = stat_report.g_tx
         /\ stat_report.pd_total = stat_report.g_pd
    /\ (stat_pc = "tx_rx" /\ stat_since = 0) => (stat_tx = 0 /\ stat_pd = 0)

\* the same of the ticks an i32 counts without overflow
C29_BeforeOverflow ==
    (stat_cnt >= 0 /\ stat_pc /= "panicked") => C29_ReportEveryThousandTicks

InitFailed == res /= NoResult /\ ~IsOk(res)

\* C31: main sleeps BACKOFF_MS once after every init() that returned an error
\* and at no other point: an init() is begun with that one sleep behind it
\* when the init() before it failed, and with no sleep behind it at start-up
\* and after a run() that returned; run() is begun without a sleep.
C31_BackoffOnlyAfterFailedInit ==
    /\ [](pc = "main" => slept = IF InitFailed THEN BACKOFF_MS ELSE 0)
    /\ [](pc \in {"run", "run_ret"} \cup TickPcs => slept = 0)
    /\ [](pc = "sleep" => InitFailed /\ slept = 0)
    /\ [][(pc = "init_ret" /\ ~IsOk(res)) => (pc' = "sleep")]_vars
    /\ [][(slept' /= slept) => (slept' = 0 \/ (pc = "sleep" /\ slept' = BACKOFF_MS))]_vars

\* an init() begun after the backoff, in a restart that a failed run() caused
C31_Witness ==
    /\ pc = "init_single_group"
    /\ slept = BACKOFF_MS
    /\ run_failed

\* C32: while run() runs, from its call on, the device list has one device
\* per subdevice of the operational group, the device at position i being the
\* one made for bus index i; when run() is called the devices are as init()
\* made them; and the dispatch loop never passes over a subdevice because it
\* has no device.
C32_OneDevicePerSubdevice ==
    /\ [](pc \in TickPcs \cup {"run"} =>
            /\ group.some
            /\ Len(devices) = Len(group.subdevices)
            /\ \A i \in 1..Len(devices) : devices[i].index = i - 1)
    /\ [](pc = "run" => \A i \in 1..Len(devices) : ~devices[i].error)
    /\ [][(pc = "dispatch" /\ ~DispatchLoopDone) => (pc' = "process_data")]_vars

\* the last subdevice of a bus of three is dispatched to its device, in a
\* later tick of the run
C32_Witness ==
    /\ pc = "process_data"
    /\ iter = 1
    /\ Len(group.subdevices) = 3
    /\ device_index = 2
    /\ devices[3].index = 2

\* C33: during an init() and when it has returned, with success or with an
\* error, the device list holds the devices whose setup() succeeded in this
\* init() and no other: device i of the list is the one made for bus index i,
\* its error flag is as the constructor set it, and when setup() of device k
\* failed the list holds devices 0..k-1.
C33_InitStartsFromFreshDevices ==
    pc \in InitPcs \cup {"init_ret"} =>
        /\ Len(devices) = Cardinality(Events(init_trace, "setup_ok"))
        /\ \A i \in 1..Len(devices) :
             /\ devices[i].index = i - 1
             /\ ~devices[i].error
             /\ \E p \in Events(init_trace, "setup_ok") : init_trace[p][2] = i - 1
        /\ \A p \in Events(init_trace, "setup_err") : Len(devices) = init_trace[p][2]
        /\ Events(init_trace, "enumerate_err") /= {} => devices = <<>>

\* a run() ended when a digital input terminal set its error flag; the
\* init() that followed made that device anew and failed at a later device
C33_Witness ==
    /\ pc = "init_ret"
    /\ run_failed
    /\ ~IsOk(res)
    /\ Len(devices) = 2
    /\ devices[1].kind = "El1xxx"
    /\ bus[1].input_len /= El1008_ARR_LEN
    /\ Last(init_trace) = <<"setup_err", 2>>

\* C34: a call of process_data on the digital input terminal returns an error
\* exactly when its input has another length than declared and the error
\* flag was false when it was called, the error being the length mismatch;
\* after the call the flag is true exactly when the call returned an error.
C34_ErrorFlagFollowsResult ==
    [][ /\ ~IsOk(dio_res') <=> (Len(dio_input') /= El1008_ARR_LEN /\ ~dio_device.error)
        /\ ~IsOk(dio_res') => dio_res' = LengthMismatch
        /\ dio_device'.error <=> ~IsOk(dio_res') ]_dio_vars

\* a call with an input of a wrong length that succeeded, the call before it
\* having set the flag, and left the flag false
C34_Witness ==
    /\ dio_run = 2
    /\ Len(dio_input) /= El1008_ARR_LEN
    /\ IsOk(dio_res)
    /\ ~dio_device.error

\* the control word with disable_calibration set and every other flag clear
OnlyDisableCalibration ==
    [control_word |->
       [start_calibration |-> FALSE, disable_calibration |-> TRUE,
        input_freeze |-> FALSE, sample_mode |-> FALSE, tare |-> FALSE]]

\* C35: a call of the load-cell amplifier's process_data adds 1 to its cnt.
\* When the new cnt is no multiple of LOG_PERIOD the call returns Ok(()) with
\* the output slice as it was, whatever the input slice is (it is not
\* unpacked, so a slice too short to unpack does no harm).  When the new cnt
\* is a multiple and the call returns, the output slice is the one the
\* control word with disable_calibration alone was packed into: that flag is
\* set, and an output slice that was zero holds exactly that word.
C35_OutputTouchedEveryThousandth ==
    (dev_op = "process_data" /\ Called = "El3356") =>
        LET before == dev_pdi0[dev_slot + 1]
            after == dev_pdi[dev_slot + 1]
        IN /\ dev_cnt = dev_cnt0 + 1
           /\ dev_cnt % LOG_PERIOD /= 0 => (dev_res = Ok /\ after.o = before.o)
           /\ (dev_cnt % LOG_PERIOD = 0 /\ IsOk(dev_res)) =>
                 /\ after.o = pack_to_slice("El3356_OutputPdo", OnlyDisableCalibration,
                                            before.o).buf
                 /\ Bit(after.o[1], 1) = 1
                 /\ before.o = <<0, 0>> => after.o = <<2, 0>>
           /\ ~IsOk(dev_res) =>
                 /\ dev_cnt % LOG_PERIOD = 0
                 /\ after.o = before.o
                 /\ \/ Len(before.i) < El3356_InputPdo.bytes
                    \/ Len(before.o) < El3356_OutputPdo.bytes

\* the thousandth call wrote the control word into an output slice of zeroes
C35_Witness ==
    /\ dev_op = "process_data"
    /\ Called = "El3356"
    /\ dev_cnt = LOG_PERIOD
    /\ dev_res = Ok
    /\ dev_pdi0[dev_slot + 1].o = <<0, 0>>
    /\ dev_pdi[dev_slot + 1].o = <<2, 0>>

\* the object idx:sub holds v when write p of the log is issued: v is what
\* the last write to it before p wrote, and that write succeeded
Holds(log, p, idx, sub, v) ==
    \E k \in 1..(p - 1) :
        /\ log[k].step = Write(idx, sub, v)
        /\ log[k].ok
        /\ \A j \in (k + 1)..(p - 1) :
             ~(log[j].step.index = idx /\ log[j].step.sub = sub)

\* the entry count a mapping object is given when it is complete
FinalCount(mapping) == IF mapping = I550_RX_PDO_MAPPING THEN 2 ELSE 3

\* C36: in the writes of a drive inverter setup, a write to a mapping object
\* (0x1605, 0x1A05) is issued only while both assignment counts (0x1C12:00,
\* 0x1C13:00) hold 0; an entry of a mapping object is written only while its
\* entry count holds 0; the entry count is set to another value only once,
\* to 2 (RX) or 3 (TX), when all its entries have been written since it was
\* zeroed; an assignment count is set to another value than 0 only to 1,
\* when both entry counts hold their final values and the assignment's entry
\* 01 names its mapping object; and a write that failed is the last write
\* of the setup, which returns its error.
C36_MappingsChangedWhileDisabled ==
    (dev_op = "setup" /\ Called = "I550") =>
        LET log == dev_sdo
            mappings == {I550_RX_PDO_MAPPING, I550_TX_PDO_MAPPING}
            assigns == {I550_RX_PDO_ASSIGN, I550_TX_PDO_ASSIGN}
            MappingOf(a) == IF a = I550_RX_PDO_ASSIGN THEN I550_RX_PDO_MAPPING
                            ELSE I550_TX_PDO_MAPPING
        IN /\ \A p \in 1..Len(log) :
                LET w == log[p].step
                IN /\ w.index \in mappings =>
                        /\ Holds(log, p, I550_RX_PDO_ASSIGN, 0, 0)
                        /\ Holds(log, p, I550_TX_PDO_ASSIGN, 0, 0)
                   /\ (w.index \in mappings /\ w.sub /= 0) =>
                        Holds(log, p, w.index, 0, 0)
                   /\ (w.index \in mappings /\ w.sub = 0 /\ w.value /= 0) =>
                        /\ w.value = FinalCount(w.index)
                        /\ Holds(log, p, w.index, 0, 0)
                        /\ \A e \in 1..w.value :
                             \E k \in 1..(p - 1) :
                                 /\ log[k].step.index = w.index
                                 /\ log[k].step.sub = e
                                 /\ Holds(log, k, w.index, 0, 0)
                   /\ (w.index \in assigns /\ w.sub = 0 /\ w.value /= 0) =>
                        /\ w.value = 1
                        /\ Holds(log, p, I550_RX_PDO_MAPPING, 0, 2)
                        /\ Holds(log, p, I550_TX_PDO_MAPPING, 0, 3)
                        /\ Holds(log, p, w.index, 1, MappingOf(w.index))
                   /\ p < Len(log) => log[p].ok
           /\ Len(log) > 0
           /\ IsOk(dev_res) <=> log[Len(log)].ok
           /\ IsOk(dev_res) =>
                 /\ Holds(log, Len(log), I550_RX_PDO_ASSIGN, 0, 1)
                 /\ Holds(log, Len(log), I550_TX_PDO_ASSIGN, 0, 1)

\* a setup whose write of the TX entry count failed: both assignments are
\* left disabled and nothing was written after it
C36_Witness ==
    /\ dev_op = "setup"
    /\ Called = "I550"
    /\ ~IsOk(dev_res)
    /\ Len(dev_sdo) = 12
    /\ dev_sdo[12].step = Write(I550_TX_PDO_MAPPING, 0, 3)
    /\ ~dev_sdo[12].ok

\* the writes of the log to the object index idx, in the order of the log
WritesTo(log, idx) == SelectSeq(log, LAMBDA e : e.step.index = idx)

\* the positions of the log that write the object idx:sub
Positions(log, idx, sub) ==
    {p \in 1..Len(log) : log[p].step.index = idx /\ log[p].step.sub = sub}

\* C37: the writes of a load-cell amplifier setup to the TX PDO assignment
\* 0x1C13 are the beginning of: 00 = 0, 01 = 0x1A00, 02 = 0x1A01, 00 = 2, so
\* an entry is written only while the count holds 0; when the setup has
\* returned, the count holds 2 exactly if it returned Ok(()), and then both
\* entries hold their values.  The nominal value (0x8000:23), the gravity
\* (0x8000:26) and the zero balance (0x8000:25) are written only if the
\* configuration has them, with the configured value, each before every
\* write to the assignment, and a setup that reached the assignment has
\* written every one that is configured.
C37_TxAssignmentOrder ==
    (dev_op = "setup" /\ Called = "El3356") =>
        LET log == dev_sdo
            end == Len(log) + 1
            assign == WritesTo(log, El3356_TX_PDO_ASSIGN)
            order == << Write(El3356_TX_PDO_ASSIGN, 0, 0),
                        Write(El3356_TX_PDO_ASSIGN, 1, 6656),
                        Write(El3356_TX_PDO_ASSIGN, 2, 6657),
                        Write(El3356_TX_PDO_ASSIGN, 0, 2) >>
            optional == << [sub |-> 35, option |-> dev_conf.nominal_value],
                           [sub |-> 38, option |-> dev_conf.gravity],
                           [sub |-> 37, option |-> dev_conf.zero_balance] >>
        IN /\ Follows(assign, order)
           /\ \A p \in 1..Len(log) :
                /\ p < Len(log) => log[p].ok
                /\ (log[p].step.index = El3356_TX_PDO_ASSIGN /\ log[p].step.sub /= 0) =>
                      Holds(log, p, El3356_TX_PDO_ASSIGN, 0, 0)
           /\ Holds(log, end, El3356_TX_PDO_ASSIGN, 0, 2) <=> IsOk(dev_res)
           /\ IsOk(dev_res) =>
                /\ Holds(log, end, El3356_TX_PDO_ASSIGN, 1, 6656)
                /\ Holds(log, end, El3356_TX_PDO_ASSIGN, 2, 6657)
           /\ \A n \in 1..3 :
                LET at == Positions(log, 32768, optional[n].sub)
                IN /\ at /= {} => optional[n].option.some
                   /\ \A p \in at :
                        /\ log[p].step.value = optional[n].option.value
                        /\ \A q \in 1..p : log[q].step.index /= El3356_TX_PDO_ASSIGN
                   /\ (optional[n].option.some /\ Len(assign) > 0) =>
                        Cardinality(at) = 1

\* a setup with the three optional values configured that wrote them and
\* the assignment and returned Ok(())
C37_Witness ==
    /\ dev_op = "setup"
    /\ Called = "El3356"
    /\ dev_res = Ok
    /\ dev_conf.nominal_value.some
    /\ dev_conf.gravity.some
    /\ dev_conf.zero_balance.some
    /\ Len(dev_sdo) = 8

(***************************************************************************)
(* Properties of the operation mode machine.                               *)
(***************************************************************************)
\* the call of on_emergency_in with a value
Emergency_in(val) == [handler |-> "on_emergency_in", val |-> val]

\* C38: in whichever of its nine states the machine is, a call of
\* on_emergency_in with true leaves it in Emergency; and a machine in
\* Emergency stays there on every call and event that is not the emergency
\* input false or the event it gives: on every button, finished, timeout
\* and Set event.
C38_EmergencyDominates ==
    /\ (ops_call = Emergency_in(TRUE) \/ ops_event \in Raised("on_emergency_in", TRUE)) =>
          (ops_state = "Emergency" /\ ops_res = Ok)
    /\ (/\ ops_from = "Emergency"
        /\ ops_call /= Emergency_in(FALSE)
        /\ ops_event \notin Raised("on_emergency_in", FALSE)) => ops_state = "Emergency"

\* the emergency input went true on a machine in Fault
C38_Witness ==
    /\ ops_from = "Fault"
    /\ ops_call = Emergency_in(TRUE)
    /\ ops_state = "Emergency"
    /\ ops_actions = << <<"action", "transition_to_emergency">>, <<"on_exit", "Fault">>,
                        <<"on_entry", "Emergency">> >>

\* the position of a state in the trail, 0 if the machine has not been in it
At(state) ==
    IF \E p \in 1..Len(ops_trail) : ops_trail[p] = state
    THEN CHOOSE p \in 1..Len(ops_trail) : ops_trail[p] = state
    ELSE 0

\* C39: with its events given by the input handlers alone, the machine is
\* never in Fault, and on_fault_in gives it no event; it leaves Emergency
\* only for Stopped; it leaves Init only on an emergency input of true, for
\* Emergency; and it comes to Running only from Starting, having been in
\* Init, Emergency, Stopped and Starting in this order before.
C39_RunningOnlyViaEmergency ==
    /\ ops_state /= "Fault"
    /\ At("Fault") = 0
    /\ ops_call.handler = "on_fault_in" => (ops_event = "none" /\ ops_state = ops_from)
    /\ (ops_from = "Emergency" /\ ops_state /= "Emergency") => ops_state = "Stopped"
    /\ (ops_from = "Init" /\ ops_state /= "Init") =>
          (ops_call = Emergency_in(TRUE) /\ ops_state = "Emergency")
    /\ (ops_state = "Running" /\ ops_from /= "Running") => ops_from = "Starting"
    /\ ops_trail[1] = "Init"
    /\ Len(ops_trail) >= 2 => ops_trail[2] = "Emergency"
    /\ Len(ops_trail) >= 3 => ops_trail[3] = "Stopped"
    /\ At("Running") > 0 => (At("Starting") > 3 /\ At("Starting") < At("Running"))

\* the machine has come to Running by the shortest way
C39_Witness ==
    /\ ops_state = "Running"
    /\ ops_trail = <<"Init", "Emergency", "Stopped", "Starting", "Running">>
    /\ ops_call = [handler |-> "on_starting_finished", val |-> TRUE]

\* the handlers that return at once when the value is false
ReturnOnFalse ==
    {"on_run_button", "on_cleaning_button", "on_maintenance_button",
     "on_starting_finished", "on_stopping_finished"}

\* C40: a call of the run, cleaning, maintenance, starting-finished or
\* stopping-finished handler with false gives the machine no event and
\* leaves its state; an event for which the state has no transition,
\* declared or wildcard, is answered with InvalidEvent, the state is left
\* as it was and no action, exit or entry callback is executed; and a call
\* that executed none of them left the state as it was.
C40_NonEventsLeaveState ==
    /\ (ops_call.handler \in ReturnOnFalse /\ ~ops_call.val) =>
          /\ ops_event = "none"
          /\ ops_res = NoResult
          /\ ops_state = ops_from
          /\ ops_actions = <<>>
    /\ (ops_event /= "none" /\ Candidates(ops_from, ops_event) = <<>>) =>
          /\ ops_res = InvalidEvent
          /\ ops_state = ops_from
          /\ ops_actions = <<>>
    /\ ops_res = InvalidEvent => Candidates(ops_from, ops_event) = <<>>
    /\ ops_actions = <<>> => ops_state = ops_from

\* the run button is pressed while the machine is in Init: the event is
\* rejected
C40_Witness ==
    /\ ops_call = [handler |-> "on_run_button", val |-> TRUE]
    /\ ops_from = "Init"
    /\ ops_event = "RunButton"
    /\ ops_res = InvalidEvent
    /\ ops_state = "Init"

====
